---- MODULE Spec2Model ----
(***************************************************************************)
(* Verification model of the task framework (AbstractTask) and of the join *)
(* operators' input handling of the column store.                          *)
(*                                                                         *)
(* Part 1: AbstractTask -- the per-task state machine, the dependency      *)
(* counters, execute() with its successor notification, and _join().      *)
(* A failed Assert/DebugAssert is fatal: it is recorded in `failed` and    *)
(* the program takes no further step (DebugAssert as in a debug build).    *)
(*                                                                         *)
(* Part 2: JoinHash -- the construction, the choice of the build and the   *)
(* probe input, materialization, radix partitioning, probing and output.   *)
(*                                                                         *)
(* Part 3: JoinSortMerge -- the construction, clustering, the merge of the *)
(* clusters by runs, the outer and NULL row patches and the output.        *)
(*                                                                         *)
(* Part 4: the cluster count of JoinSortMergeImpl.                         *)
(*                                                                         *)
(* Part 5: the output segments of the sort-merge join over tables of       *)
(* chunks; a RowID is a chunk id and a chunk offset, both counted from 0.  *)
(*                                                                         *)
(* Part 6: DropIndex over the tables of the storage manager; its           *)
(* execution is modelled from its declaration and its tests.               *)
(*                                                                         *)
(* Part 7: DisjointClustersAlgo -- the clustering of a table, chunk by     *)
(* chunk, by one column. A row is the cluster index that                   *)
(* _get_cluster_index finds for its value; MaxChunkSize rows stand for the *)
(* target chunk size of 25000 rows, which the tables have. A histogram is  *)
(* the heights of its bins; bin b holds the values 2b + 1 and 2b + 2.      *)
(*                                                                         *)
(* Part 8: CreateTableNode -- shallow hash, copy and equality. A hash is   *)
(* the sequence of the values hashed into it: hashes of the same values    *)
(* are equal, and those of different values are different but by chance.   *)
(*                                                                         *)
(* A join column is a sequence of keys, one per row; key 0 is NULL. The    *)
(* steps of join_hash_steps.hpp and RadixClusterSort are modelled from     *)
(* their description.                                                      *)
(***************************************************************************)
EXTENDS Integers, Sequences, FiniteSets, TLC

\* ------------------------------------------------------------------ bounds
NumTasks == 3
NumWorkers == 2
MaxEdges == 2
MaxApiCalls == 1
MaxRows == 3
MaxKey == 2
MaxRadixBits == 1
MaxClusterBits == 1
MaxClusterGoal == 70
MaxChunks == 2
MaxChunkSize == 2
MaxPosListSize == 2
MaxTableChunks == 3
MaxClusterIndex == 1
MaxBins == 4
MaxBinHeight == 5
MaxNodes == 3
MaxKeyConstraintObjects == 2

Tasks == 1..NumTasks
Workers == 1..NumWorkers
Executors == 0..NumWorkers
\* The thread that builds and schedules the tasks; it is not a worker.
Main == CHOOSE e \in Executors : e \notin Workers
\* The value of a task reference that refers to no task.
NoTask == CHOOSE n \in 0..NumTasks : n \notin Tasks

VARIABLES
  scheduler,      \* "immediate" (no worker threads) or "workers"
  state,          \* _state of every task
  pending,        \* _pending_predecessors of every task
  successors,     \* _successors of every task, in registration order
  predecessors,   \* _predecessors of every task
  done,           \* _done of every task
  done_callback,  \* whether _done_callback is set
  callback_runs,  \* how often the done-callback was invoked
  body_runs,      \* how often _on_execute ran to completion
  hist,           \* the distinct values _state has taken, in order
  failed,         \* "" or the assertion that failed
  stack,          \* per thread: the nested execute() calls in progress
  queue,          \* the scheduler's task queue (workers mode)
  next_task,      \* per worker: the task handed over by execute_next
  waiter,         \* the thread in _join: [task, pc]
  lastcall,       \* the last call of _try_transition_to
  api_calls,      \* the number of calls made by callers that keep no contract
  _mode,              \* JoinHash: the join mode
  _input_left,        \* JoinHash: the left input's join column, a key per row
  _input_right,       \* JoinHash: the right input's join column
  join_pc,            \* JoinHash: how far _on_execute has come
  _inputs_swapped,    \* JoinHashImpl::_inputs_swapped
  _left,              \* JoinHashImpl::_left, the build operator: which input it is
  _right,             \* JoinHashImpl::_right, the probe operator
  materialized_nulls, \* the inputs materialized with their NULL values kept
  _predicate_condition,         \* the primary predicate's condition
  _additional_join_predicates,  \* JoinHash: the additional predicates' conditions
  _radix_bits,        \* JoinHashImpl::_radix_bits
  radix_left,         \* the build side, materialized and partitioned
  radix_right,        \* the probe side, materialized and partitioned
  left_pos_lists,     \* per partition: the build side's row of every output row
  right_pos_lists,    \* per partition: the probe side's row of every output row
  _output_table,      \* the chunks of the output table, a sequence of rows each
  _output_segments,   \* per chunk: the input each column's segment refers to
  _cluster_count,          \* JoinSortMergeImpl::_cluster_count
  _sorted_left_table,      \* the left input's clusters, each sorted by value
  _sorted_right_table,     \* the right input's clusters
  _null_rows_left,         \* the left rows with a NULL value, if kept
  _null_rows_right,        \* the right rows with a NULL value, if kept
  _output_pos_lists_left,  \* per cluster: the left row of every output row
  _output_pos_lists_right, \* per cluster: the right row of every output row
  joined_clusters          \* the clusters whose join job is finished

taskVars == <<scheduler, state, pending, successors, predecessors, done, done_callback,
              callback_runs, body_runs, hist, failed, stack, queue, next_task, waiter,
              lastcall>>

\* What a join operator is constructed with.
joinParams == <<_mode, _predicate_condition, _additional_join_predicates, _input_left,
                _input_right, _radix_bits>>

\* What JoinHashImpl::_on_execute computes.
hashVars == <<materialized_nulls, radix_left, radix_right, left_pos_lists, right_pos_lists>>

\* What JoinSortMergeImpl holds.
sortMergeVars == <<_cluster_count, _sorted_left_table, _sorted_right_table, _null_rows_left,
                   _null_rows_right, _output_pos_lists_left, _output_pos_lists_right,
                   joined_clusters>>

joinVars == <<joinParams, join_pc, _inputs_swapped, _left, _right, hashVars, _output_table,
              _output_segments, sortMergeVars>>

VARIABLES
  row_count_left,          \* the left input's row_count()
  row_count_right,         \* the right input's row_count()
  materialized_value_size  \* sizeof(MaterializedValue<T>) of the join column's type

\* What _determine_number_of_clusters is called with.
clusterCountVars == <<row_count_left, row_count_right, materialized_value_size>>

VARIABLES
  input_table,     \* _add_output_segments: the input table, its type and chunks
  pos_list,        \* _add_output_segments: the join's position list for the input
  output_segments_added  \* the segments _add_output_segments has pushed back

\* What _add_output_segments works on.
addSegmentsVars == <<input_table, pos_list, output_segments_added>>

VARIABLES
  indexes_statistics,  \* per table: the names of Table::indexes_statistics()
  chunk_indexes,       \* per table and chunk: the names of the chunk's indexes
  drop_index           \* the DropIndex operator: index_name, if_exists, status

\* The indexes of the stored tables and the operator that drops one.
indexVars == <<indexes_statistics, chunk_indexes, drop_index>>

VARIABLES
  table_chunks,       \* the chunks of the table to cluster; <<>> is a removed chunk
  chunk_count_before_clustering,  \* _perform_clustering: the table's chunk count at its start
  chunk_to_cluster,   \* _perform_clustering: the chunk_id the loop has come to
  previously_partially_filled_chunks,  \* the unfull chunks of the iteration before
  temporary_chunk_ids,  \* the ids under which these are in the table
  clustering_failed   \* "" or the assertion of the clustering that failed

\* What _perform_clustering holds for a table.
clusteringVars == <<table_chunks, chunk_count_before_clustering, chunk_to_cluster, previously_partially_filled_chunks,
                    temporary_chunk_ids, clustering_failed>>

VARIABLES
  histogram,        \* _get_boundaries: the heights of the histogram's bins
  table_row_count,  \* _get_boundaries: row_count, the table's row count
  num_clusters,     \* _get_boundaries: the number of clusters asked for
  boundaries,       \* the pairs of a lower and an upper bound
  boundary_index,
  bin_id,
  lower_bound,
  upper_bound,
  rows_in_cluster,
  lower_bound_set,
  iterations,       \* how often the loop's body has run
  boundaries_pc     \* "none", "called", "loop", "returned" or the failed assertion

\* What _get_boundaries holds.
boundariesVars == <<histogram, table_row_count, num_clusters, boundaries, boundary_index, bin_id,
                    lower_bound, upper_bound, rows_in_cluster, lower_bound_set, iterations,
                    boundaries_pc>>

VARIABLES
  key_constraint_objects,  \* the TableKeyConstraints objects, by address: their contents
  nodes                    \* the CreateTableNodes made, with what they are a copy of

\* The CreateTableNodes and what they point to.
nodeVars == <<key_constraint_objects, nodes>>

\* The state of the parts other than the tasks and the join operators.
otherVars == <<clusterCountVars, addSegmentsVars, indexVars, clusteringVars, boundariesVars,
               nodeVars>>

\* ------------------------------------------------------- AbstractTask, pure
is_ready(pending_predecessors) == pending_predecessors = 0

is_scheduled(s) == s \in {"Scheduled", "AssignedToWorker", "Started"}

\* A mutant: the switch without the check of the Started transition.
try_transition_to_unchecked_start(previous_state, new_state) ==
  [ state |-> new_state,
    ret   |-> ~(new_state \in {"Enqueued", "AssignedToWorker"} /\ previous_state = new_state),
    ok    |-> CASE new_state = "Scheduled" -> previous_state = "Created"
                [] new_state = "Enqueued" -> previous_state \in {"Enqueued", "Scheduled"}
                [] new_state = "AssignedToWorker" -> previous_state \in {"AssignedToWorker", "Enqueued"}
                [] new_state = "Started" -> TRUE
                [] new_state = "Done" -> previous_state = "Started"
                [] OTHER -> FALSE ]

\* A mutant: re-entry is not recognised, Enqueued and AssignedToWorker are
\* entered from any earlier state.
try_transition_to_no_reentry(previous_state, new_state) ==
  [ state |-> new_state,
    ret   |-> TRUE,
    ok    |-> CASE new_state = "Scheduled" -> previous_state = "Created"
                [] new_state = "Enqueued" -> previous_state \in {"Enqueued", "Scheduled"}
                [] new_state = "AssignedToWorker" ->
                     previous_state \in {"AssignedToWorker", "Enqueued", "Scheduled"}
                [] new_state = "Started" -> previous_state \in {"Scheduled", "AssignedToWorker"}
                [] new_state = "Done" -> previous_state = "Started"
                [] OTHER -> FALSE ]

\* _state.exchange(new_state), then the validity switch. `state` is the value
\* stored (always new_state), `ok` whether no Assert fails, `ret` the value
\* returned when none fails.
_try_transition_to(previous_state, new_state) ==
  [ state |-> new_state,
    ret   |-> ~(new_state \in {"Enqueued", "AssignedToWorker"} /\ previous_state = new_state),
    ok    |-> CASE new_state = "Scheduled" -> previous_state = "Created"
                [] new_state = "Enqueued" -> previous_state \in {"Enqueued", "Scheduled"}
                [] new_state = "AssignedToWorker" -> previous_state \in {"AssignedToWorker", "Enqueued"}
                [] new_state = "Started" -> previous_state \in {"Scheduled", "AssignedToWorker"}
                [] new_state = "Done" -> previous_state = "Started"
                [] OTHER -> FALSE ]

\* A mutant: the counter is not decremented.
predecessor_count_not_decremented(pending_predecessors) == pending_predecessors

\* --_pending_predecessors
new_predecessor_count(pending_predecessors) == pending_predecessors - 1

\* A mutant: the successor is started at every predecessor's completion.
successor_always_ready(count) == TRUE

\* if (new_predecessor_count == 0)
successor_became_ready(count) == count = 0

\* ------------------------------------------------------------------ helpers
Observe(h, s) == IF h[Len(h)] = s THEN h ELSE Append(h, s)

Frame(t) == [task |-> t, pc |-> "start", i |-> 1]

Top(e) == stack[e][Len(stack[e])]

ReplaceTop(stk, f) == [stk EXCEPT ![Len(stk)] = f]

Pop(stk) == SubSeq(stk, 1, Len(stk) - 1)

Running == failed = ""

Executing(t) == \E e \in Executors : \E k \in 1..Len(stack[e]) : stack[e][k].task = t

RECURSIVE EdgesUpTo(_)
EdgesUpTo(n) == IF n = 0 THEN 0 ELSE Len(successors[n]) + EdgesUpTo(n - 1)

\* The number of set_as_predecessor_of calls made so far.
EdgeCount == EdgesUpTo(NumTasks)

\* The task fields that _try_transition_to and the queue's push change, as one
\* value, so that the calls one handler makes are applied in sequence.
Fields == [state |-> state, hist |-> hist, lastcall |-> lastcall, failed |-> failed,
           queue |-> queue]

\* t._try_transition_to(new_state) applied to the fields m.
Transition(m, t, new_state) ==
  LET r == _try_transition_to(m.state[t], new_state)
  IN [m EXCEPT !.state[t] = r.state,
               !.hist[t] = Observe(@, r.state),
               !.lastcall = [task |-> t, new |-> new_state, prev |-> m.state[t],
                             after |-> r.state, ret |-> r.ret, ok |-> r.ok],
               !.failed = IF r.ok THEN m.failed ELSE "illegal_transition"]

\* TaskQueue::push: only the thread that marks the task as enqueued queues it.
Push(m, t) ==
  LET m1 == Transition(m, t, "Enqueued")
  IN IF m1.failed = "" /\ m1.lastcall.ret THEN [m1 EXCEPT !.queue = Append(@, t)] ELSE m1

Commit(m) ==
  /\ state' = m.state
  /\ hist' = m.hist
  /\ lastcall' = m.lastcall
  /\ failed' = m.failed
  /\ queue' = m.queue

\* ------------------------------------------------ AbstractTask, the methods
\* p.set_as_predecessor_of(s): the Assert reads the state of p, the task the
\* method is called on.
set_as_predecessor_of(p, s) ==
  /\ Running
  /\ IF is_scheduled(state[p])
       THEN /\ failed' = "dependency_after_schedule"
            /\ UNCHANGED <<pending, successors, predecessors>>
       ELSE /\ pending' = [pending EXCEPT ![s] = @ + 1]
            /\ successors' = [successors EXCEPT ![p] = Append(@, s)]
            /\ predecessors' = [predecessors EXCEPT ![s] = Append(@, p)]
            /\ UNCHANGED failed
  /\ UNCHANGED <<scheduler, state, done, done_callback, callback_runs, body_runs, hist,
                 stack, queue, next_task, waiter, lastcall>>

set_done_callback(t) ==
  /\ Running
  /\ IF is_scheduled(state[t])
       THEN failed' = "callback_after_schedule" /\ UNCHANGED done_callback
       ELSE done_callback' = [done_callback EXCEPT ![t] = TRUE] /\ UNCHANGED failed
  /\ UNCHANGED <<scheduler, state, pending, successors, predecessors, done, callback_runs,
                 body_runs, hist, stack, queue, next_task, waiter, lastcall>>

\* The scheduler's part of schedule(): a task that is not ready is left alone;
\* a ready one is executed by the calling thread (no worker threads) or queued.
SchedulerSchedule(m, t) ==
  IF ~is_ready(pending[t]) \/ scheduler = "immediate" THEN m ELSE Push(m, t)

\* t.schedule(): the transition to Scheduled, then the hand-over to the scheduler.
schedule(t) ==
  /\ Running
  /\ LET m1 == Transition(Fields, t, "Scheduled")
         m2 == IF m1.failed = "" THEN SchedulerSchedule(m1, t) ELSE m1
     IN /\ Commit(m2)
        /\ stack' = IF m1.failed = "" /\ is_ready(pending[t]) /\ scheduler = "immediate"
                      THEN [stack EXCEPT ![Main] = Append(@, Frame(t))]
                      ELSE stack
  /\ UNCHANGED <<scheduler, pending, successors, predecessors, done, done_callback,
                 callback_runs, body_runs, next_task, waiter>>

\* t.try_mark_as_enqueued(), called by thread-independent code.
try_mark_as_enqueued(t) ==
  /\ Running
  /\ Commit(Transition(Fields, t, "Enqueued"))
  /\ UNCHANGED <<scheduler, pending, successors, predecessors, done, done_callback,
                 callback_runs, body_runs, stack, next_task, waiter>>

\* Worker w calls t.try_mark_as_assigned_to_worker() and, when that returns
\* true, t.execute().
try_mark_as_assigned_to_worker(w, t) ==
  LET m == Transition(Fields, t, "AssignedToWorker")
  IN /\ state' = m.state
     /\ hist' = m.hist
     /\ lastcall' = m.lastcall
     /\ failed' = m.failed
     /\ stack' = IF m.failed = "" /\ m.lastcall.ret
                   THEN [stack EXCEPT ![w] = Append(@, Frame(t))]
                   ELSE stack

\* ------------------------------------------------------ execute(), by steps
\* _try_transition_to(Started) and DebugAssert(is_ready()).
ExecStart(e) ==
  /\ Running
  /\ stack[e] # <<>>
  /\ Top(e).pc = "start"
  /\ LET t == Top(e).task
         m == Transition(Fields, t, "Started")
     IN /\ state' = m.state
        /\ hist' = m.hist
        /\ lastcall' = m.lastcall
        /\ failed' = IF m.failed # "" THEN m.failed
                     ELSE IF ~is_ready(pending[t]) THEN "not_ready" ELSE ""
        /\ stack' = IF m.failed = "" /\ is_ready(pending[t])
                      THEN [stack EXCEPT ![e] = ReplaceTop(@, [Top(e) EXCEPT !.pc = "body"])]
                      ELSE stack
  /\ UNCHANGED <<otherVars, joinVars, api_calls, scheduler, pending, successors, predecessors, done, done_callback,
                 callback_runs, body_runs, queue, next_task, waiter>>

\* _on_execute() runs to its end.
ExecBody(e) ==
  /\ Running
  /\ stack[e] # <<>>
  /\ Top(e).pc = "body"
  /\ body_runs' = [body_runs EXCEPT ![Top(e).task] = @ + 1]
  /\ stack' = [stack EXCEPT ![e] = ReplaceTop(@, [Top(e) EXCEPT !.pc = "done"])]
  /\ UNCHANGED <<otherVars, joinVars, api_calls, scheduler, state, pending, successors, predecessors, done, done_callback,
                 callback_runs, hist, failed, queue, next_task, waiter, lastcall>>

\* _try_transition_to(Done)
ExecDone(e) ==
  /\ Running
  /\ stack[e] # <<>>
  /\ Top(e).pc = "done"
  /\ LET m == Transition(Fields, Top(e).task, "Done")
     IN Commit(m)
  /\ stack' = [stack EXCEPT ![e] = ReplaceTop(@, [Top(e) EXCEPT !.pc = "successors"])]
  /\ UNCHANGED <<otherVars, joinVars, api_calls, scheduler, pending, successors, predecessors, done, done_callback,
                 callback_runs, body_runs, next_task, waiter>>

\* Worker::execute_next: the worker keeps the task to run it next; with one
\* kept already, the task is queued.
ExecuteNext(m, w, s) == IF next_task[w] = NoTask THEN m ELSE Push(m, s)

\* One round of the loop over _successors: successor->_on_predecessor_done().
\* On a worker a scheduled successor that became ready goes to execute_next;
\* without a worker it is executed by a nested call.
_on_predecessor_done(e) ==
  /\ Running
  /\ stack[e] # <<>>
  /\ Top(e).pc = "successors"
  /\ Top(e).i <= Len(successors[Top(e).task])
  /\ LET f == Top(e)
         s == successors[f.task][f.i]
         count == new_predecessor_count(pending[s])
         start == successor_became_ready(count) /\ is_scheduled(state[s])
         rest == ReplaceTop(stack[e], [f EXCEPT !.i = @ + 1])
     IN /\ pending' = [pending EXCEPT ![s] = count]
        /\ IF start /\ e \in Workers
             THEN /\ Commit(ExecuteNext(Fields, e, s))
                  /\ next_task' = IF next_task[e] = NoTask
                                    THEN [next_task EXCEPT ![e] = s]
                                    ELSE next_task
                  /\ stack' = [stack EXCEPT ![e] = rest]
             ELSE /\ stack' = [stack EXCEPT ![e] = IF start THEN Append(rest, Frame(s)) ELSE rest]
                  /\ UNCHANGED <<state, hist, lastcall, failed, queue, next_task>>
  /\ UNCHANGED <<otherVars, joinVars, api_calls, scheduler, successors, predecessors, done, done_callback, callback_runs,
                 body_runs, waiter>>

\* if (_done_callback) _done_callback();
ExecCallback(e) ==
  /\ Running
  /\ stack[e] # <<>>
  /\ Top(e).pc = "successors"
  /\ Top(e).i > Len(successors[Top(e).task])
  /\ callback_runs' = [callback_runs EXCEPT ![Top(e).task] =
                         IF done_callback[Top(e).task] THEN @ + 1 ELSE @]
  /\ stack' = [stack EXCEPT ![e] = ReplaceTop(@, [Top(e) EXCEPT !.pc = "set_done"])]
  /\ UNCHANGED <<otherVars, joinVars, api_calls, scheduler, state, pending, successors, predecessors, done, done_callback,
                 body_runs, hist, failed, queue, next_task, waiter, lastcall>>

\* { lock_guard lock(_done_mutex); _done = true; }
ExecSetDone(e) ==
  /\ Running
  /\ stack[e] # <<>>
  /\ Top(e).pc = "set_done"
  /\ done' = [done EXCEPT ![Top(e).task] = TRUE]
  /\ stack' = [stack EXCEPT ![e] = ReplaceTop(@, [Top(e) EXCEPT !.pc = "notify"])]
  /\ UNCHANGED <<otherVars, joinVars, api_calls, scheduler, state, pending, successors, predecessors, done_callback,
                 callback_runs, body_runs, hist, failed, queue, next_task, waiter, lastcall>>

\* _done_condition_variable.notify_all(); execute() returns.
ExecNotify(e) ==
  /\ Running
  /\ stack[e] # <<>>
  /\ Top(e).pc = "notify"
  /\ waiter' = IF waiter.task = Top(e).task /\ waiter.pc = "blocked"
                 THEN [waiter EXCEPT !.pc = "check"]
                 ELSE waiter
  /\ stack' = [stack EXCEPT ![e] = Pop(@)]
  /\ UNCHANGED <<otherVars, joinVars, api_calls, scheduler, state, pending, successors, predecessors, done, done_callback,
                 callback_runs, body_runs, hist, failed, queue, next_task, lastcall>>

InitTasks ==
  /\ scheduler \in {"immediate", "workers"}
  /\ state = [t \in Tasks |-> "Created"]
  /\ pending = [t \in Tasks |-> 0]
  /\ successors = [t \in Tasks |-> <<>>]
  /\ predecessors = [t \in Tasks |-> <<>>]
  /\ done = [t \in Tasks |-> FALSE]
  /\ done_callback = [t \in Tasks |-> FALSE]
  /\ callback_runs = [t \in Tasks |-> 0]
  /\ body_runs = [t \in Tasks |-> 0]
  /\ hist = [t \in Tasks |-> <<"Created">>]
  /\ failed = ""
  /\ stack = [e \in Executors |-> <<>>]
  /\ queue = <<>>
  /\ next_task = [w \in Workers |-> NoTask]
  /\ waiter = [task |-> NoTask, pc |-> "idle"]
  /\ lastcall = [task |-> NoTask, new |-> "Created", prev |-> "Created",
                 after |-> "Created", ret |-> TRUE, ok |-> TRUE]

\* ------------------------------------------------------------ _join(), by steps
\* DebugAssert(is_scheduled()), then the thread goes for _done_mutex.
_join(t) ==
  /\ Running
  /\ waiter.pc = "idle"
  /\ IF is_scheduled(state[t])
       THEN waiter' = [task |-> t, pc |-> "check"] /\ UNCHANGED failed
       ELSE failed' = "join_unscheduled" /\ UNCHANGED waiter
  /\ UNCHANGED <<scheduler, state, pending, successors, predecessors, done, done_callback,
                 callback_runs, body_runs, hist, stack, queue, next_task, lastcall>>

\* Under _done_mutex: the wait's predicate; the thread returns, or releases
\* the mutex and blocks, in one step.
JoinCheck ==
  /\ Running
  /\ waiter.pc = "check"
  /\ waiter' = [waiter EXCEPT !.pc = IF done[waiter.task] THEN "returned" ELSE "blocked"]
  /\ UNCHANGED <<otherVars, joinVars, api_calls, scheduler, state, pending, successors, predecessors, done, done_callback,
                 callback_runs, body_runs, hist, failed, stack, queue, next_task, lastcall>>

\* A condition variable may wake up a thread that nobody notified.
SpuriousWakeup ==
  /\ Running
  /\ waiter.pc = "blocked"
  /\ waiter' = [waiter EXCEPT !.pc = "check"]
  /\ UNCHANGED <<otherVars, joinVars, api_calls, scheduler, state, pending, successors, predecessors, done, done_callback,
                 callback_runs, body_runs, hist, failed, stack, queue, next_task, lastcall>>

\* The thread leaves _join and may wait for another task.
JoinReturn ==
  /\ Running
  /\ waiter.pc = "returned"
  /\ waiter' = [task |-> NoTask, pc |-> "idle"]
  /\ UNCHANGED <<otherVars, joinVars, api_calls, scheduler, state, pending, successors, predecessors, done, done_callback,
                 callback_runs, body_runs, hist, failed, stack, queue, next_task, lastcall>>

\* ------------------------------------------------------------------ workers
\* A worker takes the queue's first task, marks it as assigned and executes it.
WorkerPull(w) ==
  /\ Running
  /\ scheduler = "workers"
  /\ stack[w] = <<>>
  /\ next_task[w] = NoTask
  /\ queue # <<>>
  /\ try_mark_as_assigned_to_worker(w, Head(queue))
  /\ queue' = Tail(queue)
  /\ UNCHANGED <<otherVars, joinVars, api_calls, scheduler, pending, successors, predecessors, done, done_callback,
                 callback_runs, body_runs, next_task, waiter>>

\* A worker executes the task execute_next gave it.
WorkerRunNext(w) ==
  /\ Running
  /\ stack[w] = <<>>
  /\ next_task[w] # NoTask
  /\ stack' = [stack EXCEPT ![w] = <<Frame(next_task[w])>>]
  /\ next_task' = [next_task EXCEPT ![w] = NoTask]
  /\ UNCHANGED <<otherVars, joinVars, api_calls, scheduler, state, pending, successors, predecessors, done, done_callback,
                 callback_runs, body_runs, hist, failed, queue, waiter, lastcall>>

\* ------------------------------------------- the clients that keep the contract
\* Dependencies and callbacks are set on tasks that are Created, every task is
\* scheduled once, and a thread waits only for a task that was scheduled.
SetAsPredecessorOf(p, s) ==
  /\ stack[Main] = <<>>
  /\ p < s
  /\ EdgeCount < MaxEdges
  /\ state[p] = "Created"
  /\ state[s] = "Created"
  /\ set_as_predecessor_of(p, s)
  /\ UNCHANGED <<otherVars, joinVars, api_calls>>

SetDoneCallback(t) ==
  /\ stack[Main] = <<>>
  /\ state[t] = "Created"
  /\ ~done_callback[t]
  /\ set_done_callback(t)
  /\ UNCHANGED <<otherVars, joinVars, api_calls>>

Schedule(t) ==
  /\ stack[Main] = <<>>
  /\ state[t] = "Created"
  /\ schedule(t)
  /\ UNCHANGED <<otherVars, joinVars, api_calls>>

Join(t) ==
  /\ state[t] # "Created"
  /\ _join(t)
  /\ UNCHANGED <<otherVars, joinVars, api_calls>>

ExecStep(e) ==
  \/ ExecStart(e)
  \/ ExecBody(e)
  \/ ExecDone(e)
  \/ _on_predecessor_done(e)
  \/ ExecCallback(e)
  \/ ExecSetDone(e)
  \/ ExecNotify(e)

NextDeps ==
  \/ \E p, s \in Tasks : SetAsPredecessorOf(p, s)
  \/ \E t \in Tasks : Schedule(t)
  \/ \E e \in Executors : ExecStep(e)
  \/ \E w \in Workers : WorkerPull(w)
  \/ \E w \in Workers : WorkerRunNext(w)

NextTasks ==
  \/ NextDeps
  \/ \E t \in Tasks : SetDoneCallback(t)

NextJoin ==
  \/ \E t \in Tasks : Join(t)
  \/ JoinCheck
  \/ SpuriousWakeup
  \/ JoinReturn

\* --------------------------------------- callers that do not keep the contract
\* Any thread may call the public methods at any time; the assertions are what
\* stands between such a call and the task.
\* A dependency set although one of the two tasks is no longer Created. (A call
\* on a task whose execute() is running its successor loop would race with the
\* loop over _successors and is left out.)
ApiSetAsPredecessorOf(p, s) ==
  /\ api_calls < MaxApiCalls
  /\ api_calls' = api_calls + 1
  /\ UNCHANGED <<otherVars, joinVars>>
  /\ p < s
  /\ EdgeCount < MaxEdges
  /\ state[p] # "Created" \/ state[s] # "Created"
  /\ ~Executing(p)
  /\ set_as_predecessor_of(p, s)

\* schedule() on a task that was scheduled before.
ApiSchedule(t) ==
  /\ api_calls < MaxApiCalls
  /\ api_calls' = api_calls + 1
  /\ UNCHANGED <<otherVars, joinVars>>
  /\ stack[Main] = <<>>
  /\ state[t] # "Created"
  /\ schedule(t)

\* Some thread marks a task as enqueued, whatever the task's state.
ApiTryMarkAsEnqueued(t) ==
  /\ api_calls < MaxApiCalls
  /\ api_calls' = api_calls + 1
  /\ UNCHANGED <<otherVars, joinVars>>
  /\ try_mark_as_enqueued(t)

\* An idle worker claims a task, whatever the task's state, and executes it
\* when the claim returns true.
ApiClaim(w, t) ==
  /\ api_calls < MaxApiCalls
  /\ api_calls' = api_calls + 1
  /\ UNCHANGED <<otherVars, joinVars>>
  /\ Running
  /\ scheduler = "workers"
  /\ stack[w] = <<>>
  /\ next_task[w] = NoTask
  /\ try_mark_as_assigned_to_worker(w, t)
  /\ UNCHANGED <<scheduler, pending, successors, predecessors, done, done_callback,
                 callback_runs, body_runs, queue, next_task, waiter>>

\* An idle worker calls execute() on a task without claiming it.
ApiExecute(w, t) ==
  /\ api_calls < MaxApiCalls
  /\ api_calls' = api_calls + 1
  /\ UNCHANGED <<otherVars, joinVars>>
  /\ Running
  /\ scheduler = "workers"
  /\ stack[w] = <<>>
  /\ next_task[w] = NoTask
  /\ state[t] # "Created"
  /\ stack' = [stack EXCEPT ![w] = <<Frame(t)>>]
  /\ UNCHANGED <<scheduler, state, pending, successors, predecessors, done, done_callback,
                 callback_runs, body_runs, hist, failed, queue, next_task, waiter, lastcall>>

NextApi ==
  \/ \E p, s \in Tasks : ApiSetAsPredecessorOf(p, s)
  \/ \E t \in Tasks : ApiSchedule(t)
  \/ \E t \in Tasks : ApiTryMarkAsEnqueued(t)
  \/ \E w \in Workers, t \in Tasks : ApiClaim(w, t)
  \/ \E w \in Workers, t \in Tasks : ApiExecute(w, t)

\* ------------------------------------------------------------------ JoinHash
JoinModes == {"Inner", "Left", "Right", "Outer", "Cross", "Semi", "Anti"}

\* A join column: one key per row, the key 0 standing for NULL.
JoinColumns == UNION {[1..n -> 0..MaxKey] : n \in 0..MaxRows}

row_count(table) == Len(table)

\* A swap rule that also swaps inputs of equal size.
inputs_swapped_unless_smaller(mode, left_row_count, right_row_count) ==
  mode \in {"Left", "Anti", "Semi"} \/ left_row_count >= right_row_count

\* bool inputs_swapped = (mode is Left, Anti or Semi); if not, and the left
\* input has more rows than the right one, inputs_swapped = true.
inputs_swapped(mode, left_row_count, right_row_count) ==
  LET by_mode == mode \in {"Left", "Anti", "Semi"}
  IN IF ~by_mode /\ left_row_count > right_row_count THEN TRUE ELSE by_mode

\* if (inputs_swapped) build_operator = _input_right else _input_left
build_operator(swapped) == IF swapped THEN "input_right" ELSE "input_left"

\* if (inputs_swapped) probe_operator = _input_left else _input_right
probe_operator(swapped) == IF swapped THEN "input_left" ELSE "input_right"

\* const auto keep_nulls = (_mode == JoinMode::Left || _mode == JoinMode::Right)
keep_nulls(mode) == mode \in {"Left", "Right"}

PredicateConditions ==
  {"Equals", "NotEquals", "LessThan", "LessThanEquals", "GreaterThan", "GreaterThanEquals"}

\* No row: the row id of a NULL padding.
NULL_ROW_ID == CHOOSE r \in 0..MaxRows : r \notin 1..MaxRows

\* The NULL value of a join column.
IsNull(value) == value \notin 1..MaxKey

\* A column as (value, row id) pairs, in row order.
MaterializedColumn(table) == [i \in 1..Len(table) |-> [value |-> table[i], row_id |-> i]]

\* materialize_input<.., keep_nulls>: the rows of the join column; those with
\* a NULL value only when keep_nulls is set.
materialize_input(table, keep_null_values) ==
  SelectSeq(MaterializedColumn(table), LAMBDA e : keep_null_values \/ ~IsNull(e.value))

RECURSIVE Pow2(_)
Pow2(n) == IF n = 0 THEN 1 ELSE 2 * Pow2(n - 1)

\* partition_radix_parallel: the partition of a row is given by the lowest
\* radix_bits bits of its hashed value; without radix bits there is one
\* partition, the materialized column itself.
partition_radix(materialized, radix_bits) ==
  [p \in 1..Pow2(radix_bits) |->
     SelectSeq(materialized, LAMBDA e : (e.value % Pow2(radix_bits)) + 1 = p)]

\* The lookup in a partition's hash table: the build rows with the probe
\* row's value; a NULL matches nothing.
HashMatches(hashtable, e) ==
  SelectSeq(hashtable, LAMBDA b : ~IsNull(e.value) /\ b.value = e.value)

\* probe, for one partition: (build row, probe row) for every match; in the
\* outer modes (NULL, probe row) for a probe row without a match.
RECURSIVE probe(_, _, _, _)
probe(partition, hashtable, mode, i) ==
  IF i > Len(partition) THEN <<>>
  ELSE LET m == HashMatches(hashtable, partition[i])
           rows == IF m # <<>>
                     THEN [j \in 1..Len(m) |-> <<m[j].row_id, partition[i].row_id>>]
                     ELSE IF mode \in {"Left", "Right", "Outer"}
                            THEN << <<NULL_ROW_ID, partition[i].row_id>> >>
                            ELSE <<>>
       IN rows \o probe(partition, hashtable, mode, i + 1)

\* probe, Outer mode, for one partition: (build row, NULL) for every build
\* row that no probe row matched.
probe_unmatched_build(partition, hashtable) ==
  LET unmatched == SelectSeq(hashtable,
                     LAMBDA b : \A i \in 1..Len(partition) : partition[i].value # b.value)
  IN [j \in 1..Len(unmatched) |-> <<unmatched[j].row_id, NULL_ROW_ID>>]

\* probe_semi_anti, for one partition: the probe rows with a match (Semi),
\* without one (Anti).
probe_semi_anti(partition, hashtable, mode) ==
  LET kept == SelectSeq(partition,
                LAMBDA e : (HashMatches(hashtable, e) # <<>>) <=> (mode = "Semi"))
  IN [j \in 1..Len(kept) |-> kept[j].row_id]

Column(pairs, k) == [j \in 1..Len(pairs) |-> pairs[j][k]]

\* get_output() of the operator a JoinHashImpl holds as _left or _right.
get_output(operator) == IF operator = "input_left" THEN _input_left ELSE _input_right

only_output_right_input(swapped, mode) == swapped /\ mode \in {"Semi", "Anti"}

\* The segments in the order of the build and the probe side.
output_segments_not_swapped_back(left_in_table, right_in_table, swapped, mode) ==
  IF only_output_right_input(swapped, mode)
    THEN <<right_in_table>>
    ELSE <<left_in_table, right_in_table>>

\* The inputs that the segments of an output chunk refer to, in the order of
\* the write_output_segments calls: swapped inputs are swapped back.
output_segments(left_in_table, right_in_table, swapped, mode) ==
  IF swapped
    THEN <<right_in_table>>
         \o (IF ~only_output_right_input(swapped, mode) THEN <<left_in_table>> ELSE <<>>)
    ELSE <<left_in_table, right_in_table>>

\* A chunk written without swapping the inputs back.
output_chunk_not_swapped_back(left, right, swapped, mode) ==
  IF only_output_right_input(swapped, mode)
    THEN [j \in 1..Len(right) |-> <<right[j]>>]
    ELSE [j \in 1..Len(left) |-> <<left[j], right[j]>>]

\* One output chunk: write_output_segments for the two sides, the original
\* left input's columns first; a row is the row ids the chunk's segments hold.
output_chunk(left, right, swapped, mode) ==
  IF swapped
    THEN IF only_output_right_input(swapped, mode)
           THEN [j \in 1..Len(right) |-> <<right[j]>>]
           ELSE [j \in 1..Len(right) |-> <<right[j], left[j]>>]
    ELSE [j \in 1..Len(left) |-> <<left[j], right[j]>>]

\* The loop over the partitions: one chunk for every partition whose position
\* lists are not both empty.
RECURSIVE output_chunks(_, _, _, _, _)
output_chunks(lefts, rights, swapped, mode, p) ==
  IF p > Len(lefts) THEN <<>>
  ELSE (IF lefts[p] = <<>> /\ rights[p] = <<>>
          THEN <<>>
          ELSE <<output_chunk(lefts[p], rights[p], swapped, mode)>>)
       \o output_chunks(lefts, rights, swapped, mode, p + 1)

\* The probe jobs of all partitions: the position lists of the build side
\* (left) and of the probe side (right), one pair per partition.
probe_pos_lists(radix_l, radix_r, mode) ==
  LET partitions == 1..Len(radix_r)
      pairs == [p \in partitions |->
                  probe(radix_r[p], radix_l[p], mode, 1)
                  \o (IF mode = "Outer"
                        THEN probe_unmatched_build(radix_r[p], radix_l[p])
                        ELSE <<>>)]
  IN IF mode \in {"Semi", "Anti"}
       THEN [left |-> [p \in partitions |-> <<>>],
             right |-> [p \in partitions |-> probe_semi_anti(radix_r[p], radix_l[p], mode)]]
       ELSE [left |-> [p \in partitions |-> Column(pairs[p], 1)],
             right |-> [p \in partitions |-> Column(pairs[p], 2)]]

\* JoinHash::_on_execute and JoinHashImpl::_on_execute as one function of the
\* operator's parameters and inputs: the output table.
join_hash(mode, left, right, radix_bits) ==
  LET swapped == inputs_swapped(mode, row_count(left), row_count(right))
      build_table == IF build_operator(swapped) = "input_left" THEN left ELSE right
      probe_table == IF probe_operator(swapped) = "input_left" THEN left ELSE right
      radix_l == partition_radix(materialize_input(build_table, FALSE), radix_bits)
      radix_r == partition_radix(materialize_input(probe_table, keep_nulls(mode)), radix_bits)
      pos == probe_pos_lists(radix_l, radix_r, mode)
  IN output_chunks(pos.left, pos.right, swapped, mode, 1)

NoSortMergeJoin ==
  /\ _cluster_count = 0
  /\ _sorted_left_table = <<>>
  /\ _sorted_right_table = <<>>
  /\ _null_rows_left = <<>>
  /\ _null_rows_right = <<>>
  /\ _output_pos_lists_left = <<>>
  /\ _output_pos_lists_right = <<>>
  /\ joined_clusters = {}

NoHashJoin ==
  /\ _inputs_swapped = FALSE
  /\ _left = "none"
  /\ _right = "none"
  /\ materialized_nulls = {}
  /\ radix_left = <<>>
  /\ radix_right = <<>>
  /\ left_pos_lists = <<>>
  /\ right_pos_lists = <<>>
  /\ _output_table = <<>>
  /\ _output_segments = <<>>

\* No JoinHashImpl and no JoinSortMergeImpl exists.
NoJoinImpl == NoHashJoin /\ NoSortMergeJoin

NoJoin ==
  /\ _mode = "Inner"
  /\ _predicate_condition = "Equals"
  /\ _additional_join_predicates = <<>>
  /\ _input_left = <<>>
  /\ _input_right = <<>>
  /\ _radix_bits = 0
  /\ join_pc = "none"
  /\ NoJoinImpl

\* A JoinHash operator was constructed over two executed inputs.
InitJoinHash ==
  /\ _mode \in JoinModes
  /\ _predicate_condition = "Equals"
  /\ _additional_join_predicates = <<>>
  /\ _input_left \in JoinColumns
  /\ _input_right \in JoinColumns
  /\ _radix_bits \in 0..MaxRadixBits
  /\ join_pc = "constructed"
  /\ NoJoinImpl

\* The lists of additional join predicates, each given by its condition.
AdditionalJoinPredicates == {<<>>} \cup {<<condition>> : condition \in PredicateConditions}

\* A JoinHash operator is about to be constructed, with any mode, predicate
\* condition and additional predicates, over inputs of at most one row.
InitJoinHashRequest ==
  /\ _mode \in JoinModes
  /\ _predicate_condition \in PredicateConditions
  /\ _additional_join_predicates \in AdditionalJoinPredicates
  /\ _input_left \in {table \in JoinColumns : row_count(table) <= 1}
  /\ _input_right \in {table \in JoinColumns : row_count(table) <= 1}
  /\ _radix_bits \in 0..MaxRadixBits
  /\ join_pc = "requested"
  /\ NoJoinImpl

\* JoinHash::JoinHash: DebugAssert(predicate_condition == Equals).
JoinHash_construct ==
  /\ join_pc = "requested"
  /\ join_pc' = IF _predicate_condition = "Equals" THEN "constructed" ELSE "rejected"
  /\ UNCHANGED <<joinParams, _inputs_swapped, _left, _right, hashVars, _output_table, _output_segments>>
  /\ UNCHANGED <<otherVars, taskVars, api_calls, sortMergeVars>>

\* JoinHash::_on_execute up to the construction of the JoinHashImpl, which
\* takes the build operator as _left and the probe operator as _right.
JoinHash_on_execute ==
  /\ join_pc = "constructed"
  /\ LET swapped == inputs_swapped(_mode, row_count(_input_left), row_count(_input_right))
     IN /\ _inputs_swapped' = swapped
        /\ _left' = build_operator(swapped)
        /\ _right' = probe_operator(swapped)
  /\ join_pc' = "impl"
  /\ UNCHANGED <<joinParams, hashVars, _output_table, _output_segments>>
  /\ UNCHANGED <<otherVars, taskVars, api_calls, sortMergeVars>>

\* JoinHashImpl::_on_execute, the two materialization jobs: the build side
\* (_left) always without its NULL values, the probe side (_right) with them
\* when keep_nulls is set; both partitioned by _radix_bits.
JoinHashImpl_materialize ==
  /\ join_pc = "impl"
  /\ materialized_nulls' = IF keep_nulls(_mode) THEN {_right} ELSE {}
  /\ radix_left' = partition_radix(materialize_input(get_output(_left), FALSE), _radix_bits)
  /\ radix_right' = partition_radix(materialize_input(get_output(_right), keep_nulls(_mode)),
                                    _radix_bits)
  /\ join_pc' = "materialized"
  /\ UNCHANGED <<joinParams, _inputs_swapped, _left, _right, left_pos_lists, right_pos_lists,
                 _output_table, _output_segments>>
  /\ UNCHANGED <<otherVars, taskVars, api_calls, sortMergeVars>>

\* JoinHashImpl::_on_execute, the probe phase: probe_semi_anti fills the probe
\* side's position lists only.
JoinHashImpl_probe ==
  /\ join_pc = "materialized"
  /\ left_pos_lists' = probe_pos_lists(radix_left, radix_right, _mode).left
  /\ right_pos_lists' = probe_pos_lists(radix_left, radix_right, _mode).right
  /\ join_pc' = "probed"
  /\ UNCHANGED <<joinParams, _inputs_swapped, _left, _right, materialized_nulls, radix_left,
                 radix_right, _output_table, _output_segments>>
  /\ UNCHANGED <<otherVars, taskVars, api_calls, sortMergeVars>>

\* JoinHashImpl::_on_execute, the output: a chunk per partition.
JoinHashImpl_write_output ==
  /\ join_pc = "probed"
  /\ _output_table' = output_chunks(left_pos_lists, right_pos_lists, _inputs_swapped, _mode, 1)
  /\ _output_segments' =
       [c \in 1..Len(output_chunks(left_pos_lists, right_pos_lists, _inputs_swapped, _mode, 1)) |->
          output_segments(_left, _right, _inputs_swapped, _mode)]
  /\ join_pc' = "done"
  /\ UNCHANGED <<joinParams, _inputs_swapped, _left, _right, hashVars>>
  /\ UNCHANGED <<otherVars, taskVars, api_calls, sortMergeVars>>

NextJoinHash ==
  \/ JoinHash_on_execute
  \/ JoinHashImpl_materialize
  \/ JoinHashImpl_probe
  \/ JoinHashImpl_write_output

\* ------------------------------------------------------------- JoinSortMerge
\* JoinSortMerge::JoinSortMerge, the DebugAsserts on the mode and the
\* predicate condition.
JoinSortMerge_accepts(mode, op) ==
  /\ mode # "Cross"
  /\ (mode # "Semi" /\ mode # "Anti") \/ op = "Equals"
  /\ op \in PredicateConditions
  /\ op # "NotEquals" \/ mode = "Inner"

include_null_left(mode) == mode \in {"Left", "Outer"}

include_null_right(mode) == mode \in {"Right", "Outer"}

\* The cluster counts, powers of two.
ClusterCounts == {Pow2(bits) : bits \in 0..MaxClusterBits}

RECURSIVE SortedFrom(_, _)
\* A cluster's entries in the order of their values, from value v on.
SortedFrom(segment, v) ==
  IF v > MaxKey THEN <<>>
  ELSE SelectSeq(segment, LAMBDA e : e.value = v) \o SortedFrom(segment, v + 1)

\* RadixClusterSort, equi case: the rows without NULL value, clustered by the
\* hash of the value, each cluster sorted.
radix_cluster(table, cluster_count) ==
  [c \in 1..cluster_count |->
     SortedFrom(SelectSeq(materialize_input(table, FALSE),
                          LAMBDA e : (e.value % cluster_count) + 1 = c), 1)]

\* RadixClusterSort, non-equi case: the rows without NULL value, clustered by
\* value ranges (the values up to split_value come first), each cluster
\* sorted, so that the clusters in their order are the sorted table.
range_cluster(table, cluster_count, split_value) ==
  [c \in 1..cluster_count |->
     SortedFrom(SelectSeq(materialize_input(table, FALSE),
                          LAMBDA e : c = (IF e.value <= split_value THEN 1 ELSE cluster_count)),
                1)]

\* RadixClusterSort: the row ids of the rows with a NULL value, if asked for.
null_rows(table, include_null) ==
  LET nulls == SelectSeq(MaterializedColumn(table), LAMBDA e : include_null /\ IsNull(e.value))
  IN [j \in 1..Len(nulls) |-> nulls[j].row_id]

TablePosition(cluster, index) == [cluster |-> cluster, index |-> index]

\* TablePosition::to and the TableRange constructors; clusters count from 1,
\* indexes from 0.
TableRange(start_position, end_position) == [start |-> start_position, end |-> end_position]

ClusterRange(cluster, start_index, end_index) ==
  TableRange(TablePosition(cluster, start_index), TablePosition(cluster, end_index))

RECURSIVE for_every_row_id(_, _, _)
\* TableRange::for_every_row_id: the row ids of the range, from cluster on.
for_every_row_id(table, range, cluster) ==
  IF cluster > range.end.cluster THEN <<>>
  ELSE LET start_index == IF cluster = range.start.cluster THEN range.start.index ELSE 0
           end_index == IF cluster = range.end.cluster
                          THEN range.end.index
                          ELSE Len(table[cluster])
       IN [k \in 1..(end_index - start_index) |-> table[cluster][start_index + k].row_id]
          \o for_every_row_id(table, range, cluster + 1)

RowIds(table, range) == for_every_row_id(table, range, range.start.cluster)

\* The end of the first cluster, not of the table.
_end_of_first_cluster(table) == TablePosition(1, Len(table[1]))

_end_of_table(table) == TablePosition(Len(table), Len(table[Len(table)]))

\* What a step appends to the two output position lists of a cluster.
NoOutput == [left |-> <<>>, right |-> <<>>]

Emitted(first, second) ==
  [left |-> first.left \o second.left, right |-> first.right \o second.right]

\* Every combination of the two ranges, whatever the mode.
_emit_all_combinations_in_every_mode(left_range, right_range) ==
  LET l == RowIds(_sorted_left_table, left_range)
      r == RowIds(_sorted_right_table, right_range)
      combinations == 1..(Len(l) * Len(r))
  IN [left |-> [k \in combinations |-> l[((k - 1) \div Len(r)) + 1]],
      right |-> [k \in combinations |-> r[((k - 1) % Len(r)) + 1]]]

\* Semi and Anti joins collect the left rows only.
_emit_all_combinations(left_range, right_range) ==
  LET l == RowIds(_sorted_left_table, left_range)
      r == RowIds(_sorted_right_table, right_range)
      combinations == 1..(Len(l) * Len(r))
  IN IF _mode # "Semi" /\ _mode # "Anti"
       THEN [left |-> [k \in combinations |-> l[((k - 1) \div Len(r)) + 1]],
             right |-> [k \in combinations |-> r[((k - 1) % Len(r)) + 1]]]
       ELSE [left |-> l, right |-> <<>>]

_emit_right_null_combinations(left_range) ==
  LET l == RowIds(_sorted_left_table, left_range)
  IN [left |-> l, right |-> [k \in 1..Len(l) |-> NULL_ROW_ID]]

_emit_left_null_combinations(right_range) ==
  LET r == RowIds(_sorted_right_table, right_range)
  IN [left |-> [k \in 1..Len(r) |-> NULL_ROW_ID], right |-> r]

_join_runs(left_run, right_run, compare_result) ==
  LET _end_of_left_table == _end_of_table(_sorted_left_table)
      _end_of_right_table == _end_of_table(_sorted_right_table)
  IN CASE _predicate_condition = "Equals" ->
            IF compare_result = "Equal"
              THEN _emit_all_combinations(left_run, right_run)
            ELSE IF compare_result = "Less"
              THEN IF _mode = "Left" \/ _mode = "Outer"
                     THEN _emit_right_null_combinations(left_run)
                     ELSE NoOutput
            ELSE IF _mode = "Right" \/ _mode = "Outer"
                   THEN _emit_left_null_combinations(right_run)
                   ELSE NoOutput
       [] _predicate_condition = "NotEquals" ->
            IF compare_result = "Greater"
              THEN _emit_all_combinations(TableRange(left_run.start, _end_of_left_table),
                                          right_run)
            ELSE IF compare_result = "Equal"
              THEN Emitted(_emit_all_combinations(TableRange(left_run.end, _end_of_left_table),
                                                  right_run),
                           _emit_all_combinations(left_run,
                                                  TableRange(right_run.end, _end_of_right_table)))
            ELSE _emit_all_combinations(left_run,
                                        TableRange(right_run.start, _end_of_right_table))
       [] _predicate_condition = "GreaterThan" ->
            IF compare_result = "Greater"
              THEN _emit_all_combinations(TableRange(left_run.start, _end_of_left_table),
                                          right_run)
            ELSE IF compare_result = "Equal"
              THEN _emit_all_combinations(TableRange(left_run.end, _end_of_left_table),
                                          right_run)
            ELSE NoOutput
       [] _predicate_condition = "GreaterThanEquals" ->
            IF compare_result = "Greater" \/ compare_result = "Equal"
              THEN _emit_all_combinations(TableRange(left_run.start, _end_of_left_table),
                                          right_run)
              ELSE NoOutput
       [] _predicate_condition = "LessThan" ->
            IF compare_result = "Less"
              THEN _emit_all_combinations(left_run,
                                          TableRange(right_run.start, _end_of_right_table))
            ELSE IF compare_result = "Equal"
              THEN _emit_all_combinations(left_run,
                                          TableRange(right_run.end, _end_of_right_table))
            ELSE NoOutput
       [] _predicate_condition = "LessThanEquals" ->
            IF compare_result = "Less" \/ compare_result = "Equal"
              THEN _emit_all_combinations(left_run,
                                          TableRange(right_run.start, _end_of_right_table))
              ELSE NoOutput

\* Runs of one entry each.
_run_length_of_one(start_index, values) == IF start_index >= Len(values) THEN 0 ELSE 1

\* The length of the run of equal values that starts at start_index: up to
\* the first larger value (std::upper_bound).
_run_length(start_index, values) ==
  IF start_index >= Len(values) THEN 0
  ELSE LET larger == {j \in (start_index + 1)..Len(values) :
                        values[j].value > values[start_index + 1].value}
           result == IF larger = {}
                       THEN Len(values)
                       ELSE (CHOOSE j \in larger : \A k \in larger : j <= k) - 1
       IN result - start_index

_compare(left, right) ==
  IF left < right THEN "Less" ELSE IF left = right THEN "Equal" ELSE "Greater"

\* An anti-merge that keeps every row of the cluster.
_remove_no_row_ids_from(matches, input_segment, m, i) ==
  [k \in DOMAIN input_segment |-> input_segment[k].row_id]

RECURSIVE _remove_row_ids_from(_, _, _, _)
\* _remove_row_ids_from_materialized_segment, from the match m and the entry
\* i on: the entries of the cluster that are not among the matches.
_remove_row_ids_from(matches, input_segment, m, i) ==
  LET remaining(from) ==
        [k \in 1..(Len(input_segment) - from + 1) |-> input_segment[from + k - 1].row_id]
  IN IF matches = <<>> THEN remaining(i)
     ELSE IF i > Len(input_segment) THEN <<>>
     ELSE LET input_value == input_segment[i].value
              semi_join_value == _input_left[matches[m]]
          IN IF input_value = semi_join_value
               THEN IF m = Len(matches)
                      THEN remaining(i + 1)
                      ELSE _remove_row_ids_from(matches, input_segment, m + 1, i + 1)
             ELSE IF input_value < semi_join_value
               THEN <<input_segment[i].row_id>>
                    \o _remove_row_ids_from(matches, input_segment, m, i + 1)
             ELSE remaining(i)

\* A merge step that advances the left run only when its value is less.
advances_left_only_if_less(compare_result) == compare_result = "Less"

\* _join_cluster: the left run advances if the values are equal or the left
\* one is less.
advances_left(compare_result) == compare_result \in {"Equal", "Less"}

\* _join_cluster: the right run advances if the values are equal or the left
\* one is greater.
advances_right(compare_result) == compare_result \in {"Equal", "Greater"}

\* _join_cluster, one iteration of the loop over the runs: the comparison of
\* the two runs' values, what _join_runs emits for them, and where the next
\* runs start.
join_runs_step(cluster_number, left_run_start, right_run_start) ==
  LET left_cluster == _sorted_left_table[cluster_number]
      right_cluster == _sorted_right_table[cluster_number]
      left_run_end == left_run_start + _run_length(left_run_start, left_cluster)
      right_run_end == right_run_start + _run_length(right_run_start, right_cluster)
      compare_result == _compare(left_cluster[left_run_start + 1].value,
                                 right_cluster[right_run_start + 1].value)
      left_run == ClusterRange(cluster_number, left_run_start, left_run_end)
      right_run == ClusterRange(cluster_number, right_run_start, right_run_end)
  IN [compare_result |-> compare_result,
      left_run |-> left_run,
      right_run |-> right_run,
      output |-> _join_runs(left_run, right_run, compare_result),
      left_run_start |-> IF advances_left(compare_result) THEN left_run_end
                                                          ELSE left_run_start,
      right_run_start |-> IF advances_right(compare_result) THEN right_run_end
                                                            ELSE right_run_start]

RECURSIVE join_cluster_runs(_, _, _, _)
\* _join_cluster, the loop over the runs and the rest of the unfinished side.
join_cluster_runs(cluster_number, left_run_start, right_run_start, output) ==
  LET left_size == Len(_sorted_left_table[cluster_number])
      right_size == Len(_sorted_right_table[cluster_number])
  IN IF left_run_start < left_size /\ right_run_start < right_size
       THEN LET step == join_runs_step(cluster_number, left_run_start, right_run_start)
            IN join_cluster_runs(cluster_number, step.left_run_start, step.right_run_start,
                                 Emitted(output, step.output))
       ELSE LET right_rest == ClusterRange(cluster_number, right_run_start, right_size)
                left_rest == ClusterRange(cluster_number, left_run_start, left_size)
            IN Emitted(output,
                       IF left_run_start < left_size
                         THEN _join_runs(left_rest, right_rest, "Less")
                       ELSE IF right_run_start < right_size
                         THEN _join_runs(left_rest, right_rest, "Greater")
                       ELSE NoOutput)

\* _join_cluster: the output position lists of the cluster; an Anti join
\* replaces the Semi join's left rows by the cluster's other left rows.
_join_cluster(cluster_number) ==
  LET output == join_cluster_runs(cluster_number, 0, 0, NoOutput)
  IN IF _mode = "Anti"
       THEN [left |-> _remove_row_ids_from(output.left, _sorted_left_table[cluster_number],
                                           1, 1),
             right |-> output.right]
       ELSE output

\* _perform_join: no job for an empty cluster of an Inner or Semi equi join.
cluster_skipped(cluster_number) ==
  /\ (_mode = "Inner" \/ _mode = "Semi") /\ _predicate_condition = "Equals"
  /\ _sorted_left_table[cluster_number] = <<>> \/ _sorted_right_table[cluster_number] = <<>>

\* _table_min_value and _table_max_value throw if every partition is empty.
every_partition_empty(sorted_table) == \A p \in DOMAIN sorted_table : sorted_table[p] = <<>>

_table_min_value(sorted_table) ==
  LET p == CHOOSE q \in DOMAIN sorted_table :
             sorted_table[q] # <<>> /\ \A o \in 1..(q - 1) : sorted_table[o] = <<>>
  IN sorted_table[p][1].value

_table_max_value(sorted_table) ==
  LET p == CHOOSE q \in DOMAIN sorted_table :
             sorted_table[q] # <<>> /\ \A o \in (q + 1)..Len(sorted_table) : sorted_table[o] = <<>>
  IN sorted_table[p][Len(sorted_table[p])].value

\* No position: the empty std::optional<TablePosition>.
NoPosition == [cluster |-> 0, index |-> 0]

\* The first partition whose last value satisfies the condition, and in it
\* the first index whose value does; a condition is the set of the values
\* that satisfy it.
_first_value_that_satisfies(sorted_table, condition) ==
  LET partitions == {p \in DOMAIN sorted_table :
                       sorted_table[p] # <<>> /\ sorted_table[p][Len(sorted_table[p])].value \in condition}
  IN IF partitions = {} THEN NoPosition
     ELSE LET partition_id == CHOOSE p \in partitions : \A q \in partitions : p <= q
              partition == sorted_table[partition_id]
              index == CHOOSE i \in 0..(Len(partition) - 1) :
                         /\ partition[i + 1].value \in condition
                         /\ \A j \in 0..(i - 1) : partition[j + 1].value \notin condition
          IN TablePosition(partition_id, index)

\* The last partition whose first value satisfies the condition, and in it
\* the position after the last index whose value does.
_first_value_that_satisfies_reverse(sorted_table, condition) ==
  LET partitions == {p \in DOMAIN sorted_table :
                       sorted_table[p] # <<>> /\ sorted_table[p][1].value \in condition}
  IN IF partitions = {} THEN NoPosition
     ELSE LET partition_id == CHOOSE p \in partitions : \A q \in partitions : p >= q
              partition == sorted_table[partition_id]
              index == CHOOSE i \in 0..(Len(partition) - 1) :
                         /\ partition[i + 1].value \in condition
                         /\ \A j \in (i + 1)..(Len(partition) - 1) : partition[j + 1].value \notin condition
          IN TablePosition(partition_id, index + 1)

\* The rows added for Left and Outer joins with <, <=, > or >=.
_left_outer_non_equi_join ==
  LET left_min_value == _table_min_value(_sorted_left_table)
      left_max_value == _table_max_value(_sorted_left_table)
      end_of_right_table == _end_of_table(_sorted_right_table)
      result ==
        CASE _predicate_condition = "LessThan" ->
               _first_value_that_satisfies(_sorted_right_table, {value \in 1..MaxKey : value > left_min_value})
          [] _predicate_condition = "LessThanEquals" ->
               _first_value_that_satisfies(_sorted_right_table, {value \in 1..MaxKey : value >= left_min_value})
          [] _predicate_condition = "GreaterThan" ->
               _first_value_that_satisfies_reverse(_sorted_right_table,
                                                   {value \in 1..MaxKey : value < left_max_value})
          [] _predicate_condition = "GreaterThanEquals" ->
               _first_value_that_satisfies_reverse(_sorted_right_table,
                                                   {value \in 1..MaxKey : value <= left_max_value})
          [] OTHER -> NoPosition
  IN IF result = NoPosition THEN NoOutput
     ELSE IF _predicate_condition \in {"LessThan", "LessThanEquals"}
       THEN _emit_left_null_combinations(TableRange(TablePosition(1, 0), result))
       ELSE _emit_left_null_combinations(TableRange(result, end_of_right_table))

\* The rows added for Right and Outer joins with <, <=, > or >=.
_right_outer_non_equi_join ==
  LET right_min_value == _table_min_value(_sorted_right_table)
      right_max_value == _table_max_value(_sorted_right_table)
      end_of_left_table == _end_of_table(_sorted_left_table)
      result ==
        CASE _predicate_condition = "LessThan" ->
               _first_value_that_satisfies_reverse(_sorted_left_table,
                                                   {value \in 1..MaxKey : value < right_max_value})
          [] _predicate_condition = "LessThanEquals" ->
               _first_value_that_satisfies_reverse(_sorted_left_table,
                                                   {value \in 1..MaxKey : value <= right_max_value})
          [] _predicate_condition = "GreaterThan" ->
               _first_value_that_satisfies(_sorted_left_table, {value \in 1..MaxKey : value > right_min_value})
          [] _predicate_condition = "GreaterThanEquals" ->
               _first_value_that_satisfies(_sorted_left_table, {value \in 1..MaxKey : value >= right_min_value})
          [] OTHER -> NoPosition
  IN IF result = NoPosition THEN NoOutput
     ELSE IF _predicate_condition \in {"LessThan", "LessThanEquals"}
       THEN _emit_right_null_combinations(TableRange(result, end_of_left_table))
       ELSE _emit_right_null_combinations(TableRange(TablePosition(1, 0), result))

left_outer_patch == (_mode = "Left" \/ _mode = "Outer") /\ _predicate_condition # "Equals"

right_outer_patch == (_mode = "Right" \/ _mode = "Outer") /\ _predicate_condition # "Equals"

\* _perform_join after the jobs: the rows the two patches add to the first
\* cluster's output.
outer_non_equi_output ==
  Emitted(IF left_outer_patch THEN _left_outer_non_equi_join ELSE NoOutput,
          IF right_outer_patch THEN _right_outer_non_equi_join ELSE NoOutput)

\* _on_execute: the rows whose join column is NULL, padded.
null_output ==
  Emitted(IF include_null_left(_mode)
            THEN [left |-> _null_rows_left,
                  right |-> [k \in 1..Len(_null_rows_left) |-> NULL_ROW_ID]]
            ELSE NoOutput,
          IF include_null_right(_mode)
            THEN [left |-> [k \in 1..Len(_null_rows_right) |-> NULL_ROW_ID],
                  right |-> _null_rows_right]
            ELSE NoOutput)

\* _add_output_segments for one pair of position lists: a Semi or Anti join
\* leaves the right input out.
sort_merge_chunk(left, right) ==
  IF _mode # "Semi" /\ _mode # "Anti"
    THEN [j \in 1..Len(left) |-> <<left[j], right[j]>>]
    ELSE [j \in 1..Len(left) |-> <<left[j]>>]

\* The inputs that the segments of an output chunk refer to.
sort_merge_segments(mode) ==
  <<"input_left">> \o (IF mode # "Semi" /\ mode # "Anti" THEN <<"input_right">> ELSE <<>>)

\* A JoinSortMerge operator is about to be constructed over two executed
\* inputs, with any mode and predicate condition.
InitJoinSortMerge ==
  /\ _mode \in JoinModes
  /\ _predicate_condition \in PredicateConditions
  /\ _additional_join_predicates = <<>>
  /\ _input_left \in JoinColumns
  /\ _input_right \in JoinColumns
  /\ _radix_bits = 0
  /\ join_pc = "requested"
  /\ NoJoinImpl

JoinSortMerge_construct ==
  /\ join_pc = "requested"
  /\ join_pc' = IF JoinSortMerge_accepts(_mode, _predicate_condition)
                  THEN "constructed"
                  ELSE "rejected"
  /\ UNCHANGED <<joinParams, _inputs_swapped, _left, _right, hashVars, _output_table, _output_segments,
                 sortMergeVars>>
  /\ UNCHANGED <<otherVars, taskVars, api_calls>>

\* JoinSortMergeImpl's constructor and _on_execute up to _perform_join: the
\* cluster count (that of inputs of any size) and RadixClusterSort::execute.
JoinSortMergeImpl_cluster ==
  /\ join_pc = "constructed"
  /\ \E cluster_count \in ClusterCounts, split_value \in 0..MaxKey :
       /\ cluster_count = 1 \/ _predicate_condition = "Equals" => split_value = 0
       /\ _cluster_count' = cluster_count
       /\ _sorted_left_table' =
            IF _predicate_condition = "Equals"
              THEN radix_cluster(_input_left, cluster_count)
              ELSE range_cluster(_input_left, cluster_count, split_value)
       /\ _sorted_right_table' =
            IF _predicate_condition = "Equals"
              THEN radix_cluster(_input_right, cluster_count)
              ELSE range_cluster(_input_right, cluster_count, split_value)
       /\ _output_pos_lists_left' = [c \in 1..cluster_count |-> <<>>]
       /\ _output_pos_lists_right' = [c \in 1..cluster_count |-> <<>>]
  /\ _null_rows_left' = null_rows(_input_left, include_null_left(_mode))
  /\ _null_rows_right' = null_rows(_input_right, include_null_right(_mode))
  /\ join_pc' = "clustered"
  /\ UNCHANGED <<joinParams, _inputs_swapped, _left, _right, hashVars, _output_table, _output_segments,
                 joined_clusters>>
  /\ UNCHANGED <<otherVars, taskVars, api_calls>>

\* _perform_join, the job of one cluster.
JoinSortMergeImpl_join_cluster(cluster_number) ==
  /\ join_pc = "clustered"
  /\ cluster_number \in 1.._cluster_count
  /\ cluster_number \notin joined_clusters
  /\ LET output == IF cluster_skipped(cluster_number)
                     THEN NoOutput
                     ELSE _join_cluster(cluster_number)
     IN /\ _output_pos_lists_left' =
             [_output_pos_lists_left EXCEPT ![cluster_number] = output.left]
        /\ _output_pos_lists_right' =
             [_output_pos_lists_right EXCEPT ![cluster_number] = output.right]
  /\ joined_clusters' = joined_clusters \cup {cluster_number}
  /\ UNCHANGED <<joinParams, join_pc, _inputs_swapped, _left, _right, hashVars, _output_table, _output_segments,
                 _cluster_count, _sorted_left_table, _sorted_right_table, _null_rows_left,
                 _null_rows_right>>
  /\ UNCHANGED <<otherVars, taskVars, api_calls>>

\* What the patches need and do not find: a value in the outer table.
outer_patch_throws ==
  \/ left_outer_patch /\ every_partition_empty(_sorted_left_table)
  \/ right_outer_patch /\ every_partition_empty(_sorted_right_table)

\* _perform_join after wait_for_tasks and the rest of _on_execute: the outer
\* non-equi patches, the NULL rows as one more pair of position lists, and a
\* chunk per pair of position lists.
JoinSortMergeImpl_write_output ==
  /\ join_pc = "clustered"
  /\ joined_clusters = 1.._cluster_count
  /\ IF outer_patch_throws
       THEN /\ join_pc' = "threw"
            /\ UNCHANGED <<_output_pos_lists_left, _output_pos_lists_right, _output_table, _output_segments>>
       ELSE LET patched(lists, rows) == [lists EXCEPT ![1] = @ \o rows]
                with_nulls(lists, rows) ==
                  IF include_null_left(_mode) \/ include_null_right(_mode)
                    THEN Append(lists, rows)
                    ELSE lists
                lefts == with_nulls(patched(_output_pos_lists_left, outer_non_equi_output.left),
                                    null_output.left)
                rights == with_nulls(patched(_output_pos_lists_right,
                                             outer_non_equi_output.right),
                                     null_output.right)
            IN /\ _output_pos_lists_left' = lefts
               /\ _output_pos_lists_right' = rights
               /\ _output_table' = [p \in 1..Len(lefts) |-> sort_merge_chunk(lefts[p], rights[p])]
               /\ _output_segments' = [p \in 1..Len(lefts) |-> sort_merge_segments(_mode)]
               /\ join_pc' = "done"
  /\ UNCHANGED <<joinParams, _inputs_swapped, _left, _right, hashVars, _cluster_count,
                 _sorted_left_table, _sorted_right_table, _null_rows_left, _null_rows_right,
                 joined_clusters>>
  /\ UNCHANGED <<otherVars, taskVars, api_calls>>

NextJoinSortMerge ==
  \/ JoinSortMerge_construct
  \/ JoinSortMergeImpl_cluster
  \/ \E cluster_number \in 1..Pow2(MaxClusterBits) :
       JoinSortMergeImpl_join_cluster(cluster_number)
  \/ JoinSortMergeImpl_write_output

\* ------------------------------------------- JoinSortMergeImpl, cluster count
\* sizeof(MaterializedValue<T>), a RowID and a value: of a 4-byte, an 8-byte
\* and a string value.
MaterializedValueSizes == {12, 16, 40}

LINEAR_GROWTH_UPPER_BOUND == 16

\* 256'000 / sizeof(MaterializedValue<T>)
materialized_value_size_per_cluster(size) == 256000 \div size

\* static_cast<int>(a - b) of two size_t: the difference wraps around and the
\* cast keeps its low 32 bits, which for differences from -2^31 to 2^31 - 1,
\* the integers there are here, is the difference again, negative if a < b.
static_cast_int_of_difference(a, b) == a - b

\* static_cast<size_t>(std::sqrt(n)) of an int n >= 0
sqrt_truncated(n) == CHOOSE r \in 0..n : r * r <= n /\ n < (r + 1) * (r + 1)

\* std::lround(std::log2(x)) of x >= 1: the k with 2^(k - 1/2) <= x < 2^(k + 1/2)
lround_log2(x) ==
  CHOOSE k \in 0..14 : Pow2(2 * k) <= 2 * x * x /\ 2 * x * x < Pow2(2 * k + 2)

\* the k with 2^k <= x < 2^(k + 1)
floor_log2(x) == CHOOSE k \in 0..14 : Pow2(k) <= x /\ x < Pow2(k + 1)

\* _determine_number_of_clusters up to cluster_count_capped
cluster_count_capped(left_rows, right_rows, size) ==
  LET row_count_max == IF left_rows >= right_rows THEN left_rows ELSE right_rows
      cluster_count_goal == row_count_max \div materialized_value_size_per_cluster(size)
      beyond == static_cast_int_of_difference(cluster_count_goal, LINEAR_GROWTH_UPPER_BOUND)
  IN (IF LINEAR_GROWTH_UPPER_BOUND <= cluster_count_goal THEN LINEAR_GROWTH_UPPER_BOUND
                                                          ELSE cluster_count_goal)
     + sqrt_truncated(IF beyond > 0 THEN beyond ELSE 0)

\* A cluster count rounded down to a power of two.
_determine_number_of_clusters_rounding_down(left_rows, right_rows, size) ==
  LET capped == cluster_count_capped(left_rows, right_rows, size)
  IN IF capped = 0 THEN 1 ELSE Pow2(floor_log2(capped))

\* _determine_number_of_clusters. For cluster_count_capped = 0, log2 is minus
\* infinity, lround of it is the least long and pow(2, .) of that is 0.
_determine_number_of_clusters(left_rows, right_rows, size) ==
  LET capped == cluster_count_capped(left_rows, right_rows, size)
      final_cluster_count == IF capped = 0 THEN 0 ELSE Pow2(lround_log2(capped))
  IN IF final_cluster_count >= 1 THEN final_cluster_count ELSE 1

\* The row counts next to a multiple of the rows of one cluster.
RowCounts(size) ==
  {goal * materialized_value_size_per_cluster(size) + rest :
     goal \in 0..MaxClusterGoal, rest \in {0, materialized_value_size_per_cluster(size) - 1}}

NoClusterCount ==
  /\ row_count_left = 0
  /\ row_count_right = 0
  /\ materialized_value_size = 0

\* A JoinSortMerge operator over two inputs, of which the row counts count
\* here, is about to construct its JoinSortMergeImpl<T>.
InitDetermineClusters ==
  /\ _mode = "Inner"
  /\ _predicate_condition = "Equals"
  /\ _additional_join_predicates = <<>>
  /\ _input_left = <<>>
  /\ _input_right = <<>>
  /\ _radix_bits = 0
  /\ join_pc = "constructed"
  /\ NoJoinImpl
  /\ materialized_value_size \in MaterializedValueSizes
  /\ row_count_left \in RowCounts(materialized_value_size)
  /\ row_count_right \in RowCounts(materialized_value_size)

\* JoinSortMergeImpl's constructor.
JoinSortMergeImpl_construct ==
  /\ join_pc = "constructed"
  /\ materialized_value_size # 0
  /\ _cluster_count' = _determine_number_of_clusters(row_count_left, row_count_right,
                                                     materialized_value_size)
  /\ _output_pos_lists_left' = [c \in 1.._cluster_count' |-> <<>>]
  /\ _output_pos_lists_right' = [c \in 1.._cluster_count' |-> <<>>]
  /\ join_pc' = "impl_constructed"
  /\ UNCHANGED <<joinParams, _inputs_swapped, _left, _right, hashVars, _output_table,
                 _output_segments, _sorted_left_table, _sorted_right_table, _null_rows_left,
                 _null_rows_right, joined_clusters>>
  /\ UNCHANGED <<otherVars, taskVars, api_calls>>

\* ------------------------------------------ JoinSortMergeImpl, output segments
RowID(chunk_id, chunk_offset) == [chunk_id |-> chunk_id, chunk_offset |-> chunk_offset]

\* NULL_ROW_ID as a RowID: the invalid chunk id and chunk offset.
NullRowID == RowID(MaxChunks, MaxChunkSize)

is_null(row) == row = NullRowID

\* The sequences over a set of at least min and at most max elements.
SeqsOf(set, min, max) == UNION {[1..n -> set] : n \in min..max}

\* The tables that hold the data.
DataTables == {"table_a", "table_b"}

\* The positions a position list can hold: the rows of a data table of
\* MaxChunks full chunks, and NULL_ROW_ID.
DataRowIDs ==
  {RowID(c, o) : c \in 0..(MaxChunks - 1), o \in 0..(MaxChunkSize - 1)} \cup {NullRowID}

\* The ReferenceSegments of the one column of a table of type References:
\* every chunk's segment refers to the same column of the same data table.
ReferenceTables ==
  {[type |-> "References",
    chunks |-> [c \in DOMAIN pos_lists |->
                  [referenced_table |-> t, referenced_column_id |-> column,
                   pos_list |-> pos_lists[c]]]] :
     t \in DataTables, column \in {0, 1},
     pos_lists \in SeqsOf(SeqsOf(DataRowIDs, 1, MaxChunkSize), 0, MaxChunks)}

\* The tables of type Data, of which the sizes of the chunks count.
ValueTables ==
  {[type |-> "Data", chunks |-> sizes] : sizes \in SeqsOf([size : 1..MaxChunkSize], 0, MaxChunks)}

chunk_size(table, chunk_id) ==
  IF table.type = "References" THEN Len(table.chunks[chunk_id + 1].pos_list)
                               ELSE table.chunks[chunk_id + 1].size

\* The RowIDs of a table's rows.
RowIDsOf(table) ==
  {row \in [chunk_id : 0..(Len(table.chunks) - 1), chunk_offset : 0..(MaxChunkSize - 1)] :
     row.chunk_offset < chunk_size(table, row.chunk_id)}

\* A position list that is not dereferenced.
_pos_list_not_dereferenced(table, column_id, positions) == positions

\* _dereference_pos_list: the positions the input's reference segments hold
\* at the positions of the list.
_dereference_pos_list(table, column_id, positions) ==
  LET input_pos_lists == [c \in DOMAIN table.chunks |-> table.chunks[c].pos_list]
  IN [i \in DOMAIN positions |->
        IF is_null(positions[i])
          THEN NullRowID
          ELSE input_pos_lists[positions[i].chunk_id + 1][positions[i].chunk_offset + 1]]

\* _add_output_segments, the segment pushed back for a column.
new_ref_segment(table, column_id, positions) ==
  IF table.type = "References"
    THEN IF Len(table.chunks) > 0
           THEN LET ref_segment == table.chunks[1]
                IN [referenced_table |-> ref_segment.referenced_table,
                    referenced_column_id |-> ref_segment.referenced_column_id,
                    pos_list |-> _dereference_pos_list(table, column_id, positions)]
           ELSE [referenced_table |-> "dummy_table", referenced_column_id |-> column_id,
                 pos_list |-> positions]
    ELSE [referenced_table |-> "input_table", referenced_column_id |-> column_id,
          pos_list |-> positions]

NoTable == [type |-> "Data", chunks |-> <<>>]

NoAddSegments ==
  /\ input_table = NoTable
  /\ pos_list = <<>>
  /\ output_segments_added = <<>>

\* _add_output_segments is about to be called with an input table and a
\* position list of rows of it and NULL_ROW_IDs.
InitAddOutputSegments ==
  /\ input_table \in ReferenceTables \cup ValueTables
  /\ pos_list \in SeqsOf(RowIDsOf(input_table) \cup {NullRowID}, 0, MaxPosListSize)
  /\ output_segments_added = <<>>

\* _add_output_segments for the one column of the input table.
_add_output_segments ==
  /\ output_segments_added = <<>>
  /\ output_segments_added' = <<new_ref_segment(input_table, 0, pos_list)>>
  /\ UNCHANGED <<input_table, pos_list>>
  /\ UNCHANGED <<taskVars, api_calls, joinVars, clusterCountVars, indexVars, clusteringVars,
                 boundariesVars, nodeVars>>

\* ------------------------------------------------------------------ DropIndex
IndexNames == {"index_a", "index_b", "index_c"}

\* The table whose statistics hold an index of the name, if there is one.
tables_with_index(statistics, index_name) ==
  {table \in DOMAIN statistics : index_name \in statistics[table]}

\* A removal that leaves the chunks' indexes alone.
remove_index_from_statistics_only(indexes, table, index_name) ==
  [statistics |-> [indexes.statistics EXCEPT ![table] = @ \ {index_name}],
   chunks |-> indexes.chunks]

\* The index of the name is removed from the table's statistics and from
\* each of its chunks.
remove_index(indexes, table, index_name) ==
  [statistics |-> [indexes.statistics EXCEPT ![table] = @ \ {index_name}],
   chunks |-> [indexes.chunks EXCEPT ![table] =
                 [c \in DOMAIN @ |-> @[c] \ {index_name}]]]

NoIndexes ==
  /\ indexes_statistics = [table \in DataTables |-> {}]
  /\ chunk_indexes = [table \in DataTables |-> <<>>]
  /\ drop_index = [index_name |-> "", if_exists |-> FALSE, status |-> "none"]

\* The stored tables after any CreateIndex operators, an index being in the
\* statistics of one table and in each chunk of it, and a DropIndex operator
\* constructed with a name and a flag.
InitDropIndex ==
  /\ indexes_statistics \in [DataTables -> SUBSET IndexNames]
  /\ \A index_name \in IndexNames :
       Cardinality(tables_with_index(indexes_statistics, index_name)) <= 1
  /\ \E chunk_count \in [DataTables -> 1..MaxChunks] :
       chunk_indexes = [table \in DataTables |->
                          [c \in 1..chunk_count[table] |-> indexes_statistics[table]]]
  /\ drop_index \in [index_name : IndexNames, if_exists : BOOLEAN, status : {"created"}]

\* DropIndex::_on_execute
DropIndex_on_execute ==
  /\ drop_index.status = "created"
  /\ LET tables == tables_with_index(indexes_statistics, drop_index.index_name)
         indexes == [statistics |-> indexes_statistics, chunks |-> chunk_indexes]
     IN IF tables # {}
          THEN LET removed == remove_index(indexes, CHOOSE table \in tables : TRUE,
                                           drop_index.index_name)
               IN /\ indexes_statistics' = removed.statistics
                  /\ chunk_indexes' = removed.chunks
                  /\ drop_index' = [drop_index EXCEPT !.status = "executed"]
          ELSE /\ drop_index' = [drop_index EXCEPT !.status =
                                   IF drop_index.if_exists THEN "executed" ELSE "logic_error"]
               /\ UNCHANGED <<indexes_statistics, chunk_indexes>>
  /\ UNCHANGED <<taskVars, api_calls, joinVars, clusterCountVars, addSegmentsVars,
                 clusteringVars, boundariesVars, nodeVars>>

\* ------------------------------------------------------- DisjointClustersAlgo
ClusterIndexes == 0..MaxClusterIndex

\* table->target_chunk_size(), the 25000 of the assertions.
target_chunk_size == MaxChunkSize

\* The first of the assertions that fails, "" if none does.
FirstFailed(assertions) ==
  IF \A i \in DOMAIN assertions : assertions[i].holds
    THEN ""
    ELSE assertions[CHOOSE i \in DOMAIN assertions :
                      ~assertions[i].holds /\ \A j \in 1..(i - 1) : assertions[j].holds].message

Asserted(holds, message) == [holds |-> holds, message |-> message]

RECURSIVE SumOfSizes(_)
SumOfSizes(chunks) == IF chunks = <<>> THEN 0 ELSE Len(Head(chunks)) + SumOfSizes(Tail(chunks))

\* _distribute_chunk: the map from cluster index to chunks, with the copies
\* of the previously partially filled chunks, each under the cluster index of
\* its first row; a later chunk of the same index replaces an earlier one.
clusters_of_previous_chunks(previous_chunks) ==
  [cluster_index \in ClusterIndexes |->
     LET copies == {k \in DOMAIN previous_chunks : previous_chunks[k][1] = cluster_index}
     IN IF copies = {}
          THEN <<>>
          ELSE <<previous_chunks[CHOOSE k \in copies : \A other \in copies : other <= k]>>]

RECURSIVE append_rows(_, _, _)
\* _distribute_chunk, the loop over the rows of the chunk from chunk_offset
\* on: a row goes to the last chunk of its cluster, and to a new chunk if
\* there is none or the last one is full. The assertion fails if a chunk is
\* larger than the target chunk size.
append_rows(clusters, chunk, chunk_offset) ==
  IF chunk_offset > Len(chunk)
    THEN [clusters |-> clusters, failed |-> ""]
    ELSE LET cluster_index == chunk[chunk_offset]
             found == clusters[cluster_index]
             too_large == found # <<>> /\ Len(found[Len(found)]) > target_chunk_size
             insertion_chunk_vector ==
               IF found = <<>> THEN <<<<>>>>
               ELSE IF Len(found[Len(found)]) = target_chunk_size THEN Append(found, <<>>)
               ELSE found
             appended == [insertion_chunk_vector EXCEPT ![Len(insertion_chunk_vector)] =
                            Append(@, cluster_index)]
         IN IF too_large
              THEN [clusters |-> clusters, failed |-> "chunk is larger than allowed"]
              ELSE append_rows([clusters EXCEPT ![cluster_index] = appended], chunk,
                               chunk_offset + 1)

RECURSIVE chunks_of_clusters(_, _)
\* The chunks of the clusters from cluster_index on, in the order of the map.
chunks_of_clusters(clusters, cluster_index) ==
  IF cluster_index > MaxClusterIndex THEN <<>>
  ELSE clusters[cluster_index] \o chunks_of_clusters(clusters, cluster_index + 1)

\* _distribute_chunk: the full chunks it returns, the partially filled
\* chunks it leaves and the first of its assertions that failed.
_distribute_chunk(chunk, partially_filled_chunks, previous_chunks) ==
  LET seeded == clusters_of_previous_chunks(previous_chunks)
      rows_loaded == SumOfSizes(chunks_of_clusters(seeded, 0))
      distributed == append_rows(seeded, chunk, 1)
      chunks == chunks_of_clusters(distributed.clusters, 0)
      is_full(c) == Len(c) = target_chunk_size
      is_unfull(c) == Len(c) # target_chunk_size
      failed_assertion ==
        FirstFailed(<<
          Asserted(partially_filled_chunks = <<>>, "'partially_filled_chunks' should be empty"),
          Asserted(Cardinality({i \in ClusterIndexes : seeded[i] # <<>>}) = Len(previous_chunks),
                   "did not copy all chunks into the cluster"),
          Asserted(rows_loaded = SumOfSizes(previous_chunks), "should have the rows loaded"),
          Asserted(distributed.failed = "", "chunk is larger than allowed"),
          Asserted(distributed.failed # ""
                     \/ SumOfSizes(chunks) = SumOfSizes(previous_chunks) + Len(chunk),
                   "wrong number of rows")>>)
  IN [full_chunks |-> SelectSeq(chunks, is_full),
      partially_filled_chunks |-> SelectSeq(chunks, is_unfull),
      failed |-> failed_assertion]

\* table->remove_chunk for a set of chunk ids
remove_chunks(chunks, chunk_ids) ==
  [id \in DOMAIN chunks |-> IF (id - 1) \in chunk_ids THEN <<>> ELSE chunks[id]]

\* _perform_clustering, the assertions at the end of an iteration.
assertions_after_chunk(temporary_ids, partially_filled_chunks, first_inserted_chunk_id, chunk_count) ==
  FirstFailed(<<
    Asserted(Len(temporary_ids) = Len(partially_filled_chunks), "incorrect number of chunks"),
    Asserted(first_inserted_chunk_id + Len(partially_filled_chunks) = chunk_count,
             "some additional chunk appeared")>>)

NoClustering ==
  /\ table_chunks = <<>>
  /\ chunk_count_before_clustering = 0
  /\ chunk_to_cluster = 0
  /\ previously_partially_filled_chunks = <<>>
  /\ temporary_chunk_ids = <<>>
  /\ clustering_failed = ""

\* _perform_clustering is about to cluster a table of chunks of rows.
InitPerformClustering ==
  /\ table_chunks \in SeqsOf(SeqsOf(ClusterIndexes, 1, MaxChunkSize), 1, MaxTableChunks)
  /\ chunk_count_before_clustering = Len(table_chunks)
  /\ chunk_to_cluster = 0
  /\ previously_partially_filled_chunks = <<>>
  /\ temporary_chunk_ids = <<>>
  /\ clustering_failed = ""

\* _perform_clustering, one iteration of the loop over the chunks. The
\* average over no unfull chunk after the last chunk is a division by zero,
\* which ends the program or does not.
_perform_clustering_chunk ==
  /\ clustering_failed = ""
  /\ chunk_to_cluster < chunk_count_before_clustering
  /\ table_chunks[chunk_to_cluster + 1] # <<>>
  /\ LET initial_chunk == table_chunks[chunk_to_cluster + 1]
         last_chunk_to_cluster == chunk_to_cluster + 1 = chunk_count_before_clustering
         distributed == _distribute_chunk(initial_chunk, <<>>,
                                          previously_partially_filled_chunks)
         partially_filled_chunks == distributed.partially_filled_chunks
         removed == remove_chunks(table_chunks,
                                  {chunk_to_cluster} \cup {temporary_chunk_ids[k] :
                                                     k \in DOMAIN temporary_chunk_ids})
         with_full_chunks == removed \o distributed.full_chunks
         first_inserted_chunk_id == Len(with_full_chunks)
         with_all_chunks == with_full_chunks \o partially_filled_chunks
         inserted_chunk_ids ==
           IF last_chunk_to_cluster
             THEN temporary_chunk_ids
             ELSE [k \in DOMAIN partially_filled_chunks |-> first_inserted_chunk_id + k - 1]
         failed_assertion == assertions_after_chunk(inserted_chunk_ids, partially_filled_chunks,
                                          first_inserted_chunk_id, Len(with_all_chunks))
     IN IF distributed.failed # ""
          THEN /\ clustering_failed' = distributed.failed
               /\ UNCHANGED <<table_chunks, chunk_to_cluster, previously_partially_filled_chunks,
                              temporary_chunk_ids>>
          ELSE /\ table_chunks' = with_all_chunks
               /\ temporary_chunk_ids' = inserted_chunk_ids
               /\ \/ clustering_failed' = failed_assertion
                  \/ /\ last_chunk_to_cluster /\ partially_filled_chunks = <<>>
                     /\ clustering_failed' = "division by zero"
               /\ IF clustering_failed' = ""
                    THEN /\ previously_partially_filled_chunks' = partially_filled_chunks
                         /\ chunk_to_cluster' = chunk_to_cluster + 1
                    ELSE UNCHANGED <<previously_partially_filled_chunks, chunk_to_cluster>>
  /\ UNCHANGED chunk_count_before_clustering
  /\ UNCHANGED <<taskVars, api_calls, joinVars, clusterCountVars, addSegmentsVars, indexVars,
                 boundariesVars, nodeVars>>

\* ------------------------------------------ DisjointClustersAlgo, boundaries
\* AllTypeVariant{}, the NULL value
NullVariant == CHOOSE v \in 0..1 : v < 1

\* The default pair of a vector of boundaries.
DefaultBoundary == [first |-> NullVariant, second |-> NullVariant]

bin_minimum(bin) == 2 * bin + 1

bin_maximum(bin) == 2 * bin + 2

bin_count(heights) == Len(heights)

bin_height(heights, bin) == heights[bin + 1]

RECURSIVE total_count(_)
total_count(heights) == IF heights = <<>> THEN 0 ELSE Head(heights) + total_count(Tail(heights))

\* std::max(size_t{1}, row_count / num_clusters)
ideal_rows_per_cluster ==
  IF table_row_count \div num_clusters >= 1 THEN table_row_count \div num_clusters ELSE 1

\* _get_cluster_index from the boundary at cluster_index on: the index of the
\* first boundary that holds the value; the cast of a NULL bound throws, and
\* there is a failure if no boundary holds the value.
RECURSIVE _get_cluster_index(_, _, _)
_get_cluster_index(cluster_boundaries, value, cluster_index) ==
  IF cluster_index = Len(cluster_boundaries) THEN "no matching cluster"
  ELSE LET boundary == cluster_boundaries[cluster_index + 1]
       IN IF boundary.first = NullVariant \/ boundary.second = NullVariant
            THEN "bad_lexical_cast"
          ELSE IF boundary.first <= value /\ value <= boundary.second
            THEN cluster_index
          ELSE _get_cluster_index(cluster_boundaries, value, cluster_index + 1)

NoBoundaries ==
  /\ histogram = <<>>
  /\ table_row_count = 0
  /\ num_clusters = 0
  /\ boundaries = <<>>
  /\ boundary_index = 0
  /\ bin_id = 0
  /\ lower_bound = NullVariant
  /\ upper_bound = NullVariant
  /\ rows_in_cluster = 0
  /\ lower_bound_set = FALSE
  /\ iterations = 0
  /\ boundaries_pc = "none"

\* _get_boundaries is called with a histogram, the row count of the table,
\* which counts the rows with a NULL value too, and a number of clusters.
InitGetBoundaries ==
  /\ histogram \in SeqsOf(1..MaxBinHeight, 1, MaxBins)
  /\ table_row_count \in {total_count(histogram), total_count(histogram) + 1}
  /\ num_clusters \in 1..MaxBins
  /\ boundaries = <<>>
  /\ boundary_index = 0
  /\ bin_id = 0
  /\ lower_bound = NullVariant
  /\ upper_bound = NullVariant
  /\ rows_in_cluster = 0
  /\ lower_bound_set = FALSE
  /\ iterations = 0
  /\ boundaries_pc = "called"

\* _get_boundaries up to the loop
_get_boundaries_enter ==
  /\ boundaries_pc = "called"
  /\ boundaries_pc' =
       FirstFailed(<<
         Asserted(total_count(histogram) = table_row_count, "NULL values are not yet supported"),
         Asserted(num_clusters > 1, "having less than 2 clusters does not make sense"),
         Asserted(num_clusters < bin_count(histogram), "more clusters than histogram bins"),
         Asserted(FALSE, "loop")>>)
  /\ boundaries' = IF boundaries_pc' = "loop"
                     THEN [b \in 1..num_clusters |-> DefaultBoundary]
                     ELSE boundaries
  /\ UNCHANGED <<histogram, table_row_count, num_clusters, boundary_index, bin_id, lower_bound,
                 upper_bound, rows_in_cluster, lower_bound_set, iterations>>
  /\ UNCHANGED <<taskVars, api_calls, joinVars, clusterCountVars, addSegmentsVars, indexVars,
                 clusteringVars, nodeVars>>

\* _get_boundaries: with this bin the cluster is over its target size, and
\* closer to it than without the bin.
cluster_full_with_bin(rows, bin_size, ideal) ==
  /\ rows + bin_size >= ideal
  /\ rows + bin_size - ideal < ideal - rows

\* _get_boundaries, the body of the loop for the bin bin_id. A bin that is
\* processed again leaves bin_id as it is: the decrement, which wraps around
\* at 0, and the loop's increment cancel each other.
_get_boundaries_bin ==
  /\ boundaries_pc = "loop"
  /\ bin_id < bin_count(histogram)
  /\ LET new_lower_bound == IF lower_bound_set THEN lower_bound ELSE bin_minimum(bin_id)
         bin_size == bin_height(histogram, bin_id)
         ideal == ideal_rows_per_cluster
         not_full == rows_in_cluster + bin_size < ideal
         with_bin == ~not_full /\ cluster_full_with_bin(rows_in_cluster, bin_size, ideal)
         cluster_full == ~not_full
         new_upper_bound == IF not_full \/ with_bin THEN bin_maximum(bin_id) ELSE upper_bound
         grown == IF boundary_index = Len(boundaries)
                    THEN Append(boundaries, DefaultBoundary)
                    ELSE boundaries
     IN IF ~(bin_size < 2 * ideal)
          THEN /\ boundaries_pc' = "bin is too large"
               /\ lower_bound' = new_lower_bound
               /\ lower_bound_set' = TRUE
               /\ UNCHANGED <<boundaries, boundary_index, bin_id, upper_bound, rows_in_cluster,
                              iterations>>
          ELSE /\ boundaries' = [grown EXCEPT ![boundary_index + 1] =
                                   [first |-> new_lower_bound, second |-> new_upper_bound]]
               /\ lower_bound' = new_lower_bound
               /\ upper_bound' = new_upper_bound
               /\ lower_bound_set' = ~cluster_full
               /\ rows_in_cluster' = IF not_full THEN rows_in_cluster + bin_size
                                     ELSE IF cluster_full THEN 0 ELSE rows_in_cluster
               /\ boundary_index' = IF cluster_full THEN boundary_index + 1 ELSE boundary_index
               /\ bin_id' = IF not_full \/ with_bin THEN bin_id + 1 ELSE bin_id
               /\ iterations' = iterations + 1
               /\ UNCHANGED boundaries_pc
  /\ UNCHANGED <<histogram, table_row_count, num_clusters>>
  /\ UNCHANGED <<taskVars, api_calls, joinVars, clusterCountVars, addSegmentsVars, indexVars,
                 clusteringVars, nodeVars>>

\* _get_boundaries after the loop
_get_boundaries_return ==
  /\ boundaries_pc = "loop"
  /\ bin_id = bin_count(histogram)
  /\ boundaries_pc' = "returned"
  /\ UNCHANGED <<histogram, table_row_count, num_clusters, boundaries, boundary_index, bin_id,
                 lower_bound, upper_bound, rows_in_cluster, lower_bound_set, iterations>>
  /\ UNCHANGED <<taskVars, api_calls, joinVars, clusterCountVars, addSegmentsVars, indexVars,
                 clusteringVars, nodeVars>>

NextGetBoundaries == _get_boundaries_enter \/ _get_boundaries_bin \/ _get_boundaries_return

\* ------------------------------------------------------------ CreateTableNode
TableNames == {"t1", "t2"}

\* The contents of a TableKeyConstraints object.
KeyConstraintSets == SUBSET {"primary_key_a", "unique_b"}

\* boost::hash_value of a value
hash_value(value) == <<value>>

\* boost::hash_combine of a seed and a value
hash_combine(seed, value) == seed \o hash_value(value)

\* CreateTableNode::_on_shallow_hash: key_constraints is the shared pointer.
_on_shallow_hash(node) ==
  hash_combine(hash_combine(hash_value(node.table_name), node.if_not_exists),
               node.key_constraints)

\* CreateTableNode::_on_shallow_equals
_on_shallow_equals(node, rhs) ==
  /\ node.table_name = rhs.table_name
  /\ node.if_not_exists = rhs.if_not_exists
  /\ key_constraint_objects[node.key_constraints] = key_constraint_objects[rhs.key_constraints]

\* CreateTableNode::CreateTableNode
CreateTableNode(init_table_name, init_if_not_exists, init_key_constraints) ==
  [table_name |-> init_table_name, if_not_exists |-> init_if_not_exists,
   key_constraints |-> init_key_constraints]

NoNodes ==
  /\ key_constraint_objects = <<>>
  /\ nodes = <<>>

\* std::make_shared<TableKeyConstraints>
make_key_constraints(contents) ==
  /\ Len(key_constraint_objects) < MaxKeyConstraintObjects
  /\ key_constraint_objects' = Append(key_constraint_objects, contents)
  /\ UNCHANGED nodes
  /\ UNCHANGED <<taskVars, api_calls, joinVars, clusterCountVars, addSegmentsVars, indexVars,
                 clusteringVars, boundariesVars>>

\* CreateTableNode::make
CreateTableNode_make(init_table_name, init_if_not_exists, init_key_constraints) ==
  /\ Len(nodes) < MaxNodes
  /\ init_key_constraints \in DOMAIN key_constraint_objects
  /\ nodes' = Append(nodes, [node |-> CreateTableNode(init_table_name, init_if_not_exists,
                                                       init_key_constraints),
                             copy_of |-> 0])
  /\ UNCHANGED key_constraint_objects
  /\ UNCHANGED <<taskVars, api_calls, joinVars, clusterCountVars, addSegmentsVars, indexVars,
                 clusteringVars, boundariesVars>>

\* CreateTableNode::_on_shallow_copy
_on_shallow_copy(n) ==
  /\ Len(nodes) < MaxNodes
  /\ n \in DOMAIN nodes
  /\ nodes' = Append(nodes, [node |-> CreateTableNode(nodes[n].node.table_name,
                                                       nodes[n].node.if_not_exists,
                                                       nodes[n].node.key_constraints),
                             copy_of |-> n])
  /\ UNCHANGED key_constraint_objects
  /\ UNCHANGED <<taskVars, api_calls, joinVars, clusterCountVars, addSegmentsVars, indexVars,
                 clusteringVars, boundariesVars>>

NextCreateTableNode ==
  \/ \E contents \in KeyConstraintSets : make_key_constraints(contents)
  \/ \E init_table_name \in TableNames, init_if_not_exists \in BOOLEAN,
        init_key_constraints \in 1..MaxKeyConstraintObjects :
       CreateTableNode_make(init_table_name, init_if_not_exists, init_key_constraints)
  \/ \E n \in 1..MaxNodes : _on_shallow_copy(n)

NoOther ==
  /\ NoClusterCount /\ NoAddSegments /\ NoIndexes /\ NoClustering /\ NoBoundaries
  /\ NoNodes

vars == <<taskVars, api_calls, joinVars, otherVars>>

Init == InitTasks /\ api_calls = 0 /\ NoJoin /\ NoOther

Next == NextTasks

\* Clients that keep the contract, with done-callbacks.
Spec == Init /\ [][Next]_vars

\* Clients that keep the contract, and a thread that waits for tasks.
SpecJoin == Init /\ [][NextDeps \/ NextJoin]_vars

\* The contract-keeping clients and scheduler, and callers that keep no contract.
SpecApi == Init /\ [][NextDeps \/ NextApi]_vars

\* The steps that scheduling the tasks and running the threads consist of.
Progress ==
  \/ \E t \in Tasks : Schedule(t)
  \/ \E e \in Executors : ExecStep(e)
  \/ \E w \in Workers : WorkerPull(w)
  \/ \E w \in Workers : WorkerRunNext(w)

\* The client schedules every task and the threads run: while a task is left
\* to schedule or a thread has a step to take, one of these steps is taken.
FairSpec == Init /\ [][Next]_vars /\ WF_vars(Progress)

\* One JoinHash operator is executed; no task is involved.
InitJoin == InitTasks /\ scheduler = "immediate" /\ api_calls = 0 /\ InitJoinHash /\ NoOther

SpecJoinHash == InitJoin /\ [][NextJoinHash]_vars

\* One JoinHash operator is constructed and executed.
InitJoinRequest == InitTasks /\ scheduler = "immediate" /\ api_calls = 0 /\ InitJoinHashRequest /\ NoOther

NextJoinHashConstruct ==
  \/ JoinHash_construct
  \/ JoinHash_on_execute
  \/ JoinHashImpl_materialize
  \/ JoinHashImpl_probe
  \/ JoinHashImpl_write_output

SpecJoinHashConstruct == InitJoinRequest /\ [][NextJoinHashConstruct]_vars

\* One JoinSortMerge operator is constructed and executed.
InitSortMerge == InitTasks /\ scheduler = "immediate" /\ api_calls = 0 /\ InitJoinSortMerge /\ NoOther

SpecJoinSortMerge == InitSortMerge /\ [][NextJoinSortMerge]_vars

\* The construction of JoinSortMergeImpl over inputs of any row count.
InitClusterCount ==
  /\ InitTasks /\ scheduler = "immediate" /\ api_calls = 0
  /\ InitDetermineClusters /\ NoAddSegments /\ NoIndexes /\ NoClustering
  /\ NoBoundaries /\ NoNodes

SpecClusterCount == InitClusterCount /\ [][JoinSortMergeImpl_construct]_vars

\* The output segments of an input table for a position list.
InitAddSegments ==
  /\ InitTasks /\ scheduler = "immediate" /\ api_calls = 0 /\ NoJoin
  /\ NoClusterCount /\ InitAddOutputSegments /\ NoIndexes /\ NoClustering
  /\ NoBoundaries /\ NoNodes

SpecAddSegments == InitAddSegments /\ [][_add_output_segments]_vars

\* The execution of a DropIndex operator.
InitIndexes ==
  /\ InitTasks /\ scheduler = "immediate" /\ api_calls = 0 /\ NoJoin
  /\ NoClusterCount /\ NoAddSegments /\ InitDropIndex /\ NoClustering
  /\ NoBoundaries /\ NoNodes

SpecDropIndex == InitIndexes /\ [][DropIndex_on_execute]_vars

\* The clustering of a table.
InitClustering ==
  /\ InitTasks /\ scheduler = "immediate" /\ api_calls = 0 /\ NoJoin
  /\ NoClusterCount /\ NoAddSegments /\ NoIndexes /\ InitPerformClustering
  /\ NoBoundaries /\ NoNodes

SpecClustering == InitClustering /\ [][_perform_clustering_chunk]_vars

\* The boundaries of the clusters of a histogram.
InitBoundaries ==
  /\ InitTasks /\ scheduler = "immediate" /\ api_calls = 0 /\ NoJoin
  /\ NoClusterCount /\ NoAddSegments /\ NoIndexes /\ NoClustering
  /\ InitGetBoundaries /\ NoNodes

SpecGetBoundaries == InitBoundaries /\ [][NextGetBoundaries]_vars

\* The making and copying of CreateTableNodes.
InitNodes ==
  /\ InitTasks /\ scheduler = "immediate" /\ api_calls = 0 /\ NoJoin
  /\ NoClusterCount /\ NoAddSegments /\ NoIndexes /\ NoClustering /\ NoBoundaries
  /\ NoNodes

SpecCreateTableNode == InitNodes /\ [][NextCreateTableNode]_vars

\* ------------------------------------------------------------------ claims
LegalDirect == <<"Created", "Scheduled", "Started", "Done">>

LegalQueued == <<"Created", "Scheduled", "Enqueued", "AssignedToWorker", "Started", "Done">>

IsPrefix(h, l) == Len(h) <= Len(l) /\ \A i \in 1..Len(h) : h[i] = l[i]

Occurs(h, x) == \E i \in 1..Len(h) : h[i] = x

HasStarted(t) == state[t] \in {"Started", "Done"}

Quiescent ==
  /\ failed = ""
  /\ \A t \in Tasks : state[t] # "Created"
  /\ \A e \in Executors : stack[e] = <<>>
  /\ \A w \in Workers : next_task[w] = NoTask
  /\ queue = <<>>

AllDone == \A t \in Tasks : state[t] = "Done" /\ done[t]

\* C1: whatever calls of schedule, try_mark_as_enqueued,
\* try_mark_as_assigned_to_worker and execute are made, the distinct values
\* a task's state takes form a prefix of Created, Scheduled, Started, Done or
\* of Created, Scheduled, Enqueued, AssignedToWorker, Started, Done, unless
\* the last call on that task failed its assertion.
C1_StatesFormPrefix ==
  \A t \in Tasks :
    \/ failed = "illegal_transition" /\ lastcall.task = t
    \/ IsPrefix(hist[t], LegalDirect)
    \/ IsPrefix(hist[t], LegalQueued)

C1_Witness ==
  /\ failed = ""
  /\ api_calls > 0
  /\ \E t, u \in Tasks : hist[t] = LegalQueued /\ hist[u] = LegalDirect

C3_Safety ==
  \A t \in Tasks :
    /\ callback_runs[t] <= 1
    /\ callback_runs[t] = 1 => state[t] = "Done" /\ done_callback[t]
    /\ done[t] => callback_runs[t] = (IF done_callback[t] THEN 1 ELSE 0)
    /\ Cardinality({i \in 1..Len(hist[t]) : hist[t][i] = "Done"}) <= 1
    /\ body_runs[t] <= 1

\* The steps task t still has to take: its scheduling, the hand-over to a
\* thread, the steps of execute() and one step for each successor.
StepsLeft(t) ==
  LET L == Len(successors[t])
      held == {f \in UNION {{stack[e][k] : k \in 1..Len(stack[e])} : e \in Executors} :
                 f.task = t}
  IN IF held # {}
       THEN LET f == CHOOSE g \in held : TRUE
            IN CASE f.pc = "start" -> L + 6
                 [] f.pc = "body" -> L + 5
                 [] f.pc = "done" -> L + 4
                 [] f.pc = "successors" -> (L + 1 - f.i) + 3
                 [] f.pc = "set_done" -> 2
                 [] f.pc = "notify" -> 1
       ELSE IF done[t] THEN 0
       ELSE IF state[t] = "Created" THEN L + 8
       ELSE L + 7

RECURSIVE StepsLeftUpTo(_)
StepsLeftUpTo(n) == IF n = 0 THEN 0 ELSE StepsLeft(n) + StepsLeftUpTo(n - 1)

\* While the program runs and is not quiescent, the client or a thread has a
\* step to take.
NotQuiescentCanStep == failed = "" /\ ~Quiescent => ENABLED Progress

C4_BodyOnlyWhenReadyAndScheduled ==
  /\ failed # "not_ready"
  /\ \A e \in Executors : \A k \in 1..Len(stack[e]) :
       stack[e][k].pc = "body" =>
         /\ is_ready(pending[stack[e][k].task])
         /\ Occurs(hist[stack[e][k].task], "Scheduled")

C4_Witness ==
  \E e \in Workers :
    /\ stack[e] # <<>>
    /\ Top(e).pc = "body"
    /\ Len(predecessors[Top(e).task]) >= 2

\* C5: a dependency is accepted only while the successor is Created.
C5_LateDependencyRejected ==
  [][\A s \in Tasks : Len(predecessors'[s]) > Len(predecessors[s]) => state[s] = "Created"]_vars

\* The links p -> s (one per call of set_as_predecessor_of) whose predecessor
\* has not yet called s._on_predecessor_done() for them.
Notified(p, i) ==
  \/ done[p]
  \/ \E e \in Executors : \E k \in 1..Len(stack[e]) :
       /\ stack[e][k].task = p
       /\ \/ stack[e][k].pc \in {"set_done", "notify"}
          \/ stack[e][k].pc = "successors" /\ i < stack[e][k].i

Unnotified(s) ==
  Cardinality({l \in Tasks \X (1..MaxEdges) :
                 /\ l[2] <= Len(successors[l[1]])
                 /\ successors[l[1]][l[2]] = s
                 /\ ~Notified(l[1], l[2])})

\* C6, as stated: the counter is never negative and is zero exactly when every
\* registered predecessor is Done.
C6_ZeroIffPredecessorsDone ==
  \A s \in Tasks :
    /\ pending[s] >= 0
    /\ pending[s] = 0 <=> \A i \in 1..Len(predecessors[s]) : state[predecessors[s][i]] = "Done"

\* C6, amended: the counter is never negative and counts the registered links
\* whose predecessor has not yet notified the successor; it is zero only when
\* every registered predecessor is Done, and it is zero once every registered
\* predecessor has finished execute().
C6_CountsUnnotifiedPredecessors ==
  \A s \in Tasks :
    /\ pending[s] >= 0
    /\ pending[s] = Unnotified(s)
    /\ pending[s] = 0 => \A i \in 1..Len(predecessors[s]) : state[predecessors[s][i]] = "Done"
    /\ (\A i \in 1..Len(predecessors[s]) : done[predecessors[s][i]]) => pending[s] = 0

C6_Witness ==
  \E s \in Tasks :
    /\ Len(predecessors[s]) >= 2
    /\ pending[s] = 0
    /\ body_runs[s] = 1

\* C7: a call that re-enters Enqueued or AssignedToWorker returns false, fails
\* no assertion and leaves the state as it was; the entry from the state
\* before returns true.
C7_ReentryReturnsFalse ==
  /\ lastcall.new \in {"Enqueued", "AssignedToWorker"} /\ lastcall.prev = lastcall.new =>
       ~lastcall.ret /\ lastcall.ok /\ lastcall.after = lastcall.prev
  /\ lastcall.new = "Enqueued" /\ lastcall.prev = "Scheduled" => lastcall.ret /\ lastcall.ok
  /\ lastcall.new = "AssignedToWorker" /\ lastcall.prev = "Enqueued" => lastcall.ret /\ lastcall.ok

C7_Witness ==
  /\ failed = ""
  /\ lastcall.new = "AssignedToWorker"
  /\ lastcall.prev = "AssignedToWorker"
  /\ state[lastcall.task] = "AssignedToWorker"

\* C8: when two threads go for the same task, its body runs at most once.
C8_BodyRunsAtMostOnce ==
  \A t \in Tasks :
    body_runs[t]
      + Cardinality({e \in Executors :
                       \E k \in 1..Len(stack[e]) : stack[e][k].task = t /\ stack[e][k].pc = "body"})
      <= 1

\* Two workers called execute() on the same task; the second was stopped.
C8_Witness ==
  \E v, w \in Workers :
    /\ v # w
    /\ stack[v] # <<>>
    /\ stack[w] # <<>>
    /\ Top(v).task = Top(w).task
    /\ Top(v).pc = "body"
    /\ Top(w).pc = "start"
    /\ failed = "illegal_transition"

\* C9: a thread that waits for a scheduled task fails no assertion and does
\* not return before the body ran and _done was set.
C9_JoinWaitsForDone ==
  /\ failed # "join_unscheduled"
  /\ waiter.pc = "returned" => done[waiter.task] /\ body_runs[waiter.task] >= 1

\* The input whose every row an outer join keeps.
OuterInput(mode) == IF mode = "Left" THEN "input_left" ELSE "input_right"

\* C10: in modes Left and Right the input materialized with its NULL values
\* kept is the probe side, and the probe side is the outer-kept input: the
\* left input for Left, the right input for Right.
C10_ProbeSideIsOuterInput ==
  join_pc = "materialized" /\ _mode \in {"Left", "Right"} =>
    /\ materialized_nulls = {_right}
    /\ _right = OuterInput(_mode)

\* ------------------------------------------------------- claims, the hash join
RECURSIVE Rows(_)
\* The rows of a table, chunk after chunk.
Rows(table) == IF table = <<>> THEN <<>> ELSE Head(table) \o Rows(Tail(table))

Range(f) == {f[i] : i \in DOMAIN f}

\* How often a row occurs in a table.
Count(rows, row) == Cardinality({i \in DOMAIN rows : rows[i] = row})

\* The executed operator's output is the function of its inputs.
OutputIsJoinHash ==
  join_pc = "done" => _output_table = join_hash(_mode, _input_left, _input_right, _radix_bits)

\* C11: for the same inputs the Semi and the Anti hash join split the left
\* input: no left row is in both outputs, the two outputs together have as
\* many rows as the left input, and a left row with a NULL key is in the Anti
\* output.
C11_SemiAntiPartitionLeft ==
  join_pc = "done" /\ _mode \in {"Semi", "Anti"} =>
    LET semi == Rows(join_hash("Semi", _input_left, _input_right, _radix_bits))
        anti == Rows(join_hash("Anti", _input_left, _input_right, _radix_bits))
    IN /\ Range(semi) \cap Range(anti) = {}
       /\ Len(semi) + Len(anti) = row_count(_input_left)
       /\ \A i \in 1..row_count(_input_left) :
            IsNull(_input_left[i]) => Count(anti, <<i>>) = 1

\* The pairs of a left and a right row with equal join keys, neither NULL.
MatchingPairs(left, right) ==
  {pair \in (1..Len(left)) \X (1..Len(right)) :
     ~IsNull(left[pair[1]]) /\ left[pair[1]] = right[pair[2]]}

\* C13: whatever the radix bits and the sizes of the inputs, swapped or not,
\* the output of an Inner hash join has every pair of a left and a right row
\* with equal keys exactly once and no other row: for every key k,
\* |L_k| * |R_k| rows.
C13_InnerJoinAllMatchingPairsOnce ==
  join_pc = "done" /\ _mode = "Inner" =>
    LET rows == Rows(_output_table)
        matching == MatchingPairs(_input_left, _input_right)
    IN /\ Len(rows) = Cardinality(matching)
       /\ \A pair \in matching : Count(rows, pair) = 1
       /\ Range(rows) \subseteq matching

\* An Inner join over swapped inputs and two partitions, a key with two left
\* rows: three output rows in two chunks.
C13_Witness ==
  /\ join_pc = "done"
  /\ _mode = "Inner"
  /\ _inputs_swapped
  /\ _radix_bits = 1
  /\ Len(_output_table) = 2
  /\ Len(Rows(_output_table)) = 3
  /\ \E i, j \in 1..Len(_input_left) : i # j /\ _input_left[i] = _input_left[j]

C19_UnsupportedHashJoinRejected ==
  (\/ _mode = "Cross"
   \/ _predicate_condition # "Equals"
   \/ \E i \in DOMAIN _additional_join_predicates :
        _additional_join_predicates[i] # "Equals")
  => join_pc \in {"requested", "rejected"}

\* ------------------------------------------------ claims, the sort-merge join
\* The position lists of a cluster have one entry per output row.
SortMergeTypeOK ==
  /\ join_pc \in {"requested", "rejected", "constructed", "clustered", "threw", "done"}
  /\ \A c \in DOMAIN _output_pos_lists_left :
       _mode \notin {"Semi", "Anti"} =>
         Len(_output_pos_lists_left[c]) = Len(_output_pos_lists_right[c])

\* C18: the constructor of a sort-merge join rejects the mode Cross, Semi and
\* Anti with a predicate other than =, Outer with a predicate other than =,
\* and != with a mode other than Inner; it accepts every other pair of a mode
\* and a predicate.
C18_SortMergeRejectsUnsupported ==
  join_pc # "requested" =>
    (join_pc = "rejected" <=>
       \/ _mode = "Cross"
       \/ _mode \in {"Semi", "Anti"} /\ _predicate_condition # "Equals"
       \/ _mode = "Outer" /\ _predicate_condition # "Equals"
       \/ _predicate_condition = "NotEquals" /\ _mode # "Inner")

\* Whether a left and a right value, neither NULL, satisfy the predicate.
Satisfies(op, l, r) ==
  /\ ~IsNull(l)
  /\ ~IsNull(r)
  /\ CASE op = "Equals" -> l = r
       [] op = "NotEquals" -> l # r
       [] op = "LessThan" -> l < r
       [] op = "LessThanEquals" -> l <= r
       [] op = "GreaterThan" -> l > r
       [] op = "GreaterThanEquals" -> l >= r

\* The right rows that satisfy the operator's predicate with the left row i.
Partners(i) ==
  {j \in 1..Len(_input_right) : Satisfies(_predicate_condition, _input_left[i], _input_right[j])}

\* C12: in the output of a sort-merge join in mode Left with <, <=, > or >=,
\* a left row with right rows that satisfy the predicate appears once with
\* each of them, and a left row with none appears exactly once, with
\* NULL_ROW_ID on the right side.
C12_LeftNonEquiKeepsEveryLeftRow ==
  /\ join_pc = "done"
  /\ _mode = "Left"
  /\ _predicate_condition \in {"LessThan", "LessThanEquals", "GreaterThan", "GreaterThanEquals"}
  => LET rows == Rows(_output_table)
     IN \A i \in 1..Len(_input_left) :
          /\ \A j \in Partners(i) : Count(rows, <<i, j>>) = 1
          /\ Count(rows, <<i, NULL_ROW_ID>>) = (IF Partners(i) = {} THEN 1 ELSE 0)

\* The rows of a Semi join: every left row at most once, and exactly those
\* with a right row of equal key, neither NULL.
SemiJoinRows(rows) ==
  /\ \A i \in 1..Len(_input_left) : Count(rows, <<i>>) = (IF Partners(i) # {} THEN 1 ELSE 0)
  /\ Range(rows) \subseteq {<<i>> : i \in 1..Len(_input_left)}

\* C14: in the output of a Semi join with an equality predicate, by the
\* sort-merge join and by the hash join on the same inputs, each left row
\* appears at most once, and it appears exactly if a right row has an equal
\* key that is not NULL.
C14_SemiJoinLeftRowsOnce ==
  join_pc = "done" /\ _mode = "Semi" /\ _predicate_condition = "Equals" =>
    /\ SemiJoinRows(Rows(_output_table))
    /\ \A radix_bits \in 0..MaxRadixBits :
         SemiJoinRows(Rows(join_hash("Semi", _input_left, _input_right, radix_bits)))

\* A Semi join over two clusters: a left row with two partners, in the output
\* once, and a left row with none.
C14_Witness ==
  /\ join_pc = "done"
  /\ _mode = "Semi"
  /\ _cluster_count = 2
  /\ \E i, k \in 1..Len(_input_left) :
       /\ Cardinality(Partners(i)) = 2
       /\ Count(Rows(_output_table), <<i>>) = 1
       /\ ~IsNull(_input_left[k])
       /\ Partners(k) = {}

\* Whether two tables hold the same rows, each as often.
SameRows(first, second) ==
  \A row \in Range(first) \cup Range(second) : Count(first, row) = Count(second, row)

\* C15: for an equality predicate and each of the modes Inner, Left, Right,
\* Outer, Semi and Anti, the sort-merge join and the hash join of the same
\* two inputs have the same rows, each as often.
C15_SortMergeEqualsHashJoin ==
  /\ join_pc = "done"
  /\ _predicate_condition = "Equals"
  /\ _mode \in {"Inner", "Left", "Right", "Outer", "Semi", "Anti"}
  => \A radix_bits \in 0..MaxRadixBits :
       SameRows(Rows(_output_table),
                Rows(join_hash(_mode, _input_left, _input_right, radix_bits)))

\* The output rows are the pairs of a left and a right row that satisfy the
\* operator's predicate, each once.
SatisfyingPairsOnce(rows) ==
  /\ \A i \in 1..Len(_input_left) : \A j \in Partners(i) : Count(rows, <<i, j>>) = 1
  /\ Range(rows) \subseteq {<<i, j>> : i \in 1..Len(_input_left), j \in 1..Len(_input_right)}
  /\ \A row \in Range(rows) : row[2] \in Partners(row[1])

\* C16: whatever the cluster count, the output of an Inner sort-merge join
\* with <, <=, > or >= is exactly the pairs of a left and a right row, neither
\* key NULL, whose values satisfy the predicate, each pair once.
C16_InnerNonEquiExactPairs ==
  /\ join_pc = "done"
  /\ _mode = "Inner"
  /\ _predicate_condition \in {"LessThan", "LessThanEquals", "GreaterThan", "GreaterThanEquals"}
  => SatisfyingPairsOnce(Rows(_output_table))

\* An Inner join with < over two clusters, both inputs with rows in both: a
\* left row of the first cluster is paired with a right row of the second.
C16_Witness ==
  /\ join_pc = "done"
  /\ _mode = "Inner"
  /\ _predicate_condition = "LessThan"
  /\ _cluster_count = 2
  /\ \A c \in 1..2 : _sorted_left_table[c] # <<>> /\ _sorted_right_table[c] # <<>>
  /\ \E i \in DOMAIN _sorted_left_table[1], j \in DOMAIN _sorted_right_table[2] :
       Count(Rows(_output_table),
             <<_sorted_left_table[1][i].row_id, _sorted_right_table[2][j].row_id>>) = 1

\* The number of rows whose key is not NULL.
NonNullCount(table) == Cardinality({i \in 1..Len(table) : ~IsNull(table[i])})

\* C17: whatever the cluster count, the output of an Inner sort-merge join
\* with != has |L| * |R| rows less |L_k| * |R_k| for every key k, rows with a
\* NULL key not counted, and holds each pair of rows with different values
\* exactly once.
C17_InnerNotEqualsExactPairs ==
  join_pc = "done" /\ _mode = "Inner" /\ _predicate_condition = "NotEquals" =>
    /\ SatisfyingPairsOnce(Rows(_output_table))
    /\ Len(Rows(_output_table)) =
         NonNullCount(_input_left) * NonNullCount(_input_right)
           - Cardinality(MatchingPairs(_input_left, _input_right))

\* An Inner join with != over two clusters: a run of two equal left values
\* that meets an equal right value, and a left and a right row after them.
C17_Witness ==
  /\ join_pc = "done"
  /\ _mode = "Inner"
  /\ _predicate_condition = "NotEquals"
  /\ _cluster_count = 2
  /\ Len(_sorted_left_table[1]) = 2
  /\ _sorted_left_table[2] # <<>>
  /\ _sorted_right_table[1] # <<>>
  /\ _sorted_right_table[2] # <<>>
  /\ Len(Rows(_output_table)) >= 3

\* ------------------------------------------------------- claims, the output
\* C21: every output chunk of the hash join has the left input's columns
\* first and the right input's columns second, swapped inputs or not; a Semi
\* or Anti join's chunks have the left input's columns only.
C21_OutputColumnsLeftThenRight ==
  join_pc = "done" =>
    /\ Len(_output_segments) = Len(_output_table)
    /\ \A c \in DOMAIN _output_segments :
         /\ _output_segments[c] = IF _mode \in {"Semi", "Anti"}
                                    THEN <<"input_left">>
                                    ELSE <<"input_left", "input_right">>
         /\ \A r \in DOMAIN _output_table[c] :
              /\ Len(_output_table[c][r]) = Len(_output_segments[c])
              /\ _output_table[c][r][1] \in {NULL_ROW_ID} \cup (1..row_count(_input_left))

\* A join in a mode other than Semi and Anti whose inputs were swapped wrote
\* a chunk.
C21_Witness ==
  /\ join_pc = "done"
  /\ _inputs_swapped
  /\ _mode \in {"Inner", "Right", "Outer"}
  /\ _output_segments # <<>>
  /\ row_count(_input_left) > row_count(_input_right)

\* ------------------------------------------------------- claims, is_scheduled
\* C27: is_scheduled() is false for a task in Created and true for a task in
\* any state once schedule() has moved it to Scheduled: in Scheduled,
\* Enqueued, AssignedToWorker, Started and Done.
C27_IsScheduledMonotonic ==
  \A t \in Tasks :
    /\ state[t] = "Created" => ~is_scheduled(state[t])
    /\ Occurs(hist[t], "Scheduled") => is_scheduled(state[t])

C23_OutputIsDereferenced ==
  output_segments_added # <<>> /\ input_table.type = "References" /\ Len(input_table.chunks) > 0
    => LET segment == output_segments_added[1]
       IN /\ Len(output_segments_added) = 1
          /\ Len(segment.pos_list) = Len(pos_list)
          /\ \A i \in DOMAIN pos_list :
               IF pos_list[i] = NullRowID
                 THEN segment.pos_list[i] = NullRowID
                 ELSE LET chunk == input_table.chunks[pos_list[i].chunk_id + 1]
                      IN /\ segment.pos_list[i] = chunk.pos_list[pos_list[i].chunk_offset + 1]
                         /\ segment.referenced_table = chunk.referenced_table
                         /\ segment.referenced_column_id = chunk.referenced_column_id
          /\ segment.referenced_table \in DataTables

\* The segment of an input of two chunks of reference segments, for a
\* position list of a row of the second chunk, whose position the segment
\* holds, and a NULL_ROW_ID.
C23_Witness ==
  /\ output_segments_added # <<>>
  /\ input_table.type = "References"
  /\ Len(input_table.chunks) = 2
  /\ Len(pos_list) = 2
  /\ pos_list[1] # NullRowID /\ pos_list[1].chunk_id = 1
  /\ pos_list[2] = NullRowID
  /\ output_segments_added[1].pos_list[1] # pos_list[1]
  /\ output_segments_added[1].pos_list[1] # NullRowID

C28_ClusteringAssertionsHold == clustering_failed = ""

\* ------------------------------------------------------ claims, the boundaries
\* The values of a bin.
ValuesOfBin(bin) == bin_minimum(bin)..bin_maximum(bin)

\* The bin lies inside the boundary.
BinInside(bin, boundary) ==
  /\ boundary # DefaultBoundary
  /\ boundary.first <= bin_minimum(bin) /\ bin_maximum(bin) <= boundary.second

\* C29: for a histogram that passes the assertions of _get_boundaries the
\* loop ends, having processed no bin more than twice, and the boundaries
\* returned are all set, ascending and pairwise disjoint, every bin of the
\* histogram lies inside exactly one of them, and _get_cluster_index finds a
\* cluster for every value of every bin.
C29_BoundariesSetDisjointCovering ==
  /\ boundaries_pc = "loop" => iterations <= 2 * bin_count(histogram)
  /\ boundaries_pc = "returned" =>
       /\ \A b \in DOMAIN boundaries :
            /\ boundaries[b].first # NullVariant /\ boundaries[b].second # NullVariant
            /\ boundaries[b].first <= boundaries[b].second
       /\ \A b \in DOMAIN boundaries, c \in DOMAIN boundaries :
            b < c => boundaries[b].second < boundaries[c].first
       /\ \A bin \in 0..(bin_count(histogram) - 1) :
            /\ Cardinality({b \in DOMAIN boundaries : BinInside(bin, boundaries[b])}) = 1
            /\ \A value \in ValuesOfBin(bin) :
                 _get_cluster_index(boundaries, value, 0) \in 0..(Len(boundaries) - 1)

\* ----------------------------------------------------- claims, CreateTableNode
\* C30: two CreateTableNodes that _on_shallow_equals holds for have the same
\* _on_shallow_hash, also if their key constraints are two objects of the
\* same contents, and a shallow copy of a node equals the node and has its
\* hash.
C30_EqualNodesHaveEqualHashes ==
  /\ \A a \in DOMAIN nodes, b \in DOMAIN nodes :
       _on_shallow_equals(nodes[a].node, nodes[b].node)
         => _on_shallow_hash(nodes[a].node) = _on_shallow_hash(nodes[b].node)
  /\ \A a \in DOMAIN nodes :
       nodes[a].copy_of # 0 =>
         /\ _on_shallow_equals(nodes[a].node, nodes[nodes[a].copy_of].node)
         /\ _on_shallow_hash(nodes[a].node) = _on_shallow_hash(nodes[nodes[a].copy_of].node)

\* ------------------------------------------------------ claims, the merge loop
\* The indexes at which a run of equal values starts in a sorted cluster.
RunStarts(cluster) ==
  {i \in 0..(Len(cluster) - 1) : i = 0 \/ cluster[i].value # cluster[i + 1].value}

\* The positions of the merge loop in the states where the clusters are
\* joined: a cluster, a left run and a right run.
MergePositions ==
  IF join_pc # "clustered" THEN {}
  ELSE {pos \in [cluster : 1.._cluster_count, left : 0..MaxRows, right : 0..MaxRows] :
          /\ pos.left \in RunStarts(_sorted_left_table[pos.cluster])
          /\ pos.right \in RunStarts(_sorted_right_table[pos.cluster])}

\* The iteration emits exactly the left rows from the given position to the
\* end of the left table, each paired with each row of the right run.
EmitsLeftFrom(step, position) ==
  LET l == RowIds(_sorted_left_table, TableRange(position, _end_of_table(_sorted_left_table)))
      r == RowIds(_sorted_right_table, step.right_run)
  IN /\ Len(step.output.left) = Len(l) * Len(r)
     /\ Len(step.output.right) = Len(l) * Len(r)
     /\ \A i \in DOMAIN l, j \in DOMAIN r :
          Cardinality({k \in DOMAIN step.output.left :
                         step.output.left[k] = l[i] /\ step.output.right[k] = r[j]}) = 1

\* The runs with which the next iteration goes on.
Advances(step, left, right) ==
  /\ step.left_run_start = (IF left THEN step.left_run.end.index ELSE step.left_run.start.index)
  /\ step.right_run_start = (IF right THEN step.right_run.end.index
                                      ELSE step.right_run.start.index)

\* C25, as stated: with the predicate >, an iteration over runs of equal
\* values emits the left rows from the start of the left run on with the right
\* run and advances the left run; one whose left value is less only advances
\* the right run; one whose left value is greater emits the left rows from the
\* start of the left run on with the right run and advances the left run.
C25_GreaterThanStepAsStated ==
  _predicate_condition = "GreaterThan" =>
    \A pos \in MergePositions :
      LET step == join_runs_step(pos.cluster, pos.left, pos.right)
      IN CASE step.compare_result = "Equal" ->
                EmitsLeftFrom(step, step.left_run.start) /\ Advances(step, TRUE, FALSE)
           [] step.compare_result = "Less" ->
                step.output = NoOutput /\ Advances(step, FALSE, TRUE)
           [] step.compare_result = "Greater" ->
                EmitsLeftFrom(step, step.left_run.start) /\ Advances(step, TRUE, FALSE)

\* C25, amended: with the predicate >, an iteration over runs of equal values
\* emits the left rows after the left run with the right run and advances both
\* runs; one whose left value is less emits nothing and advances the left run;
\* one whose left value is greater emits the left rows from the start of the
\* left run on with the right run and advances the right run.
C25_GreaterThanStep ==
  _predicate_condition = "GreaterThan" =>
    \A pos \in MergePositions :
      LET step == join_runs_step(pos.cluster, pos.left, pos.right)
      IN CASE step.compare_result = "Equal" ->
                EmitsLeftFrom(step, step.left_run.end) /\ Advances(step, TRUE, TRUE)
           [] step.compare_result = "Less" ->
                step.output = NoOutput /\ Advances(step, TRUE, FALSE)
           [] step.compare_result = "Greater" ->
                EmitsLeftFrom(step, step.left_run.start) /\ Advances(step, FALSE, TRUE)

\* A cluster joined with >: a left run of two rows meets a right run of the
\* same value, with a left row after them, and elsewhere the left value is
\* less and greater.
C25_Witness ==
  /\ _predicate_condition = "GreaterThan"
  /\ \E pos \in MergePositions :
       LET step == join_runs_step(pos.cluster, pos.left, pos.right)
       IN /\ step.compare_result = "Equal"
          /\ step.left_run.end.index - step.left_run.start.index = 2
          /\ step.output # NoOutput
  /\ \E pos \in MergePositions :
       join_runs_step(pos.cluster, pos.left, pos.right).compare_result = "Less"
  /\ \E pos \in MergePositions :
       join_runs_step(pos.cluster, pos.left, pos.right).compare_result = "Greater"

\* ------------------------------------------------------ claims, the anti-merge
\* The Semi join's left rows of a cluster: what the loop over the runs emits
\* before an Anti join overwrites it.
SemiResult(cluster_number) == join_cluster_runs(cluster_number, 0, 0, NoOutput).left

\* The rows of the left cluster, in sorted order, whose value is not the value
\* of a row of the Semi result.
RowsNotInSemiResult(cluster_number) ==
  LET semi_values == {_input_left[row] : row \in Range(SemiResult(cluster_number))}
      not_matched(entry) == entry.value \notin semi_values
      kept == SelectSeq(_sorted_left_table[cluster_number], not_matched)
  IN [k \in DOMAIN kept |-> kept[k].row_id]

\* C26: the output of a cluster of a sort-merge Anti join is the rows of the
\* left cluster, in sorted order, whose value does not appear in the cluster's
\* Semi result, and every row of the left cluster is exactly once in the Semi
\* result and the Anti result taken together.
C26_AntiIsClusterWithoutSemi ==
  _mode = "Anti" =>
    \A cluster_number \in joined_clusters :
      LET anti == _output_pos_lists_left[cluster_number]
          semi == SemiResult(cluster_number)
          left_cluster == _sorted_left_table[cluster_number]
      IN /\ anti = RowsNotInSemiResult(cluster_number)
         /\ \A k \in DOMAIN left_cluster :
              Count(semi, left_cluster[k].row_id) + Count(anti, left_cluster[k].row_id) = 1
         /\ Len(semi) + Len(anti) = Len(left_cluster)

\* An Anti join has joined a cluster whose left rows are a run of two matched
\* rows and a row without a match.
C26_Witness ==
  /\ _mode = "Anti"
  /\ \E cluster_number \in joined_clusters :
       /\ Len(SemiResult(cluster_number)) = 2
       /\ Len(_output_pos_lists_left[cluster_number]) = 1

====
